---- MODULE Spec2Model ----
(***************************************************************************)
(* Rock-Paper-Scissors game session engine.                                *)
(*                                                                         *)
(* The model follows the JavaScript sources:                               *)
(*   gameLogic    (determineWinner, createGameState, processMove,          *)
(*                 processRound, addPlayer)                                *)
(*   GameManager  (createGame, joinGame, submitMove, removePlayer,         *)
(*                 cleanupOldGames, processRoundDirectly)                  *)
(*   socket handlers (create_game, join_game, submit_move, submit_rock,    *)
(*                 leave_game, disconnect, round timers)                   *)
(*                                                                         *)
(* One action is one run of a handler between two suspension points of    *)
(* the Node.js event loop.  A handler that awaits the profile store is     *)
(* split at the await: the first action leaves a continuation in          *)
(* `pending`, a second action resumes it.                                  *)
(***************************************************************************)
EXTENDS Integers, Sequences, FiniteSets, TLC

(***************************************************************************)
(* Values                                                                  *)
(***************************************************************************)
Null == "null"

Players == {"p1", "p2", "p3"}

\* every socket belongs to one client, which always sends its own playerId
Sockets == {"s1", "s2", "s3", "s1b"}
Owner(s) == CASE s = "s1"  -> "p1"
              [] s = "s1b" -> "p1"
              [] s = "s2"  -> "p2"
              [] s = "s3"  -> "p3"

WalletOf(p) == CASE p = "p1" -> "w1" [] p = "p2" -> "w2" [] p = "p3" -> "w3"

GameIds == {"g1", "g2"}

VALID_MOVES == {"rock", "paper", "scissors"}
WINNING_SCORE == 3
RoundDuration == 15
PointsStake == 100

\* bounds of the exploration
MaxHistory == 4
MaxRound == 3
MaxPending == 2
MaxCleanups == 1
MaxStarts == 2
MaxPlayHistory == 2
MaxSettleHistory == 3
MaxIsoHistory == 1

(***************************************************************************)
(* gameLogic: pure functions over one game state                           *)
(***************************************************************************)
winConditions(m) == CASE m = "rock" -> "scissors"
                      [] m = "scissors" -> "paper"
                      [] m = "paper" -> "rock"

determineWinnerSwapped(move1, move2) ==
  IF move1 \notin VALID_MOVES \/ move2 \notin VALID_MOVES THEN "throw"
  ELSE IF move1 = move2 THEN "draw"
  ELSE IF winConditions(move2) = move1 THEN "player1" ELSE "player2"

determineWinner(move1, move2) ==
  IF move1 \notin VALID_MOVES \/ move2 \notin VALID_MOVES THEN "throw"
  ELSE IF move1 = move2 THEN "draw"
  ELSE IF winConditions(move1) = move2 THEN "player1" ELSE "player2"

EmptySlot ==
  [id |-> Null, socketId |-> Null, wallet |-> Null, wins |-> 0,
   currentMove |-> Null, ready |-> "false", stakeDeposited |-> FALSE]

\* the slot object removePlayer writes: it has no `ready` property
RemovedSlot == [EmptySlot EXCEPT !.ready = "undefined"]

createGameState(gameType, stakeAmount, currency) ==
  [gameType |-> gameType, currency |-> currency, stakeAmount |-> stakeAmount,
   player1 |-> EmptySlot, player2 |-> EmptySlot,
   currentRound |-> 1, gameStatus |-> "waiting_for_player", winner |-> Null,
   moveHistory |-> << >>, processed |-> FALSE, completionProcessed |-> FALSE]

NoGame == [gameStatus |-> "absent"]

HasPlayer(gs, p) == gs.player1.id = p \/ gs.player2.id = p

\* processRound (gameLogic): history entry, win count, completion check
processRoundNoFinish(gameState) ==
  LET move1 == gameState.player1.currentMove
      move2 == gameState.player2.currentMove
      roundWinner == determineWinner(move1, move2)
      entry == [round |-> gameState.currentRound, player1Move |-> move1,
                player2Move |-> move2, winner |-> roundWinner]
      g1 == [gameState EXCEPT !.moveHistory = Append(@, entry)]
      g2 == IF roundWinner = "player1" THEN [g1 EXCEPT !.player1.wins = @ + 1]
            ELSE IF roundWinner = "player2" THEN [g1 EXCEPT !.player2.wins = @ + 1]
            ELSE g1
  IN IF roundWinner = "throw"
     THEN [gameState |-> gameState, threw |-> TRUE, roundComplete |-> FALSE,
           gameFinished |-> FALSE, roundWinner |-> Null]
     ELSE [gameState |-> g2, threw |-> FALSE, roundComplete |-> TRUE,
           gameFinished |-> g2.gameStatus = "finished", roundWinner |-> roundWinner]

\* processRound that increments the round number itself
processRoundAdvances(gameState) ==
  LET move1 == gameState.player1.currentMove
      move2 == gameState.player2.currentMove
      roundWinner == determineWinner(move1, move2)
      entry == [round |-> gameState.currentRound, player1Move |-> move1,
                player2Move |-> move2, winner |-> roundWinner]
      g1 == [gameState EXCEPT !.moveHistory = Append(@, entry), !.currentRound = @ + 1]
      g2 == IF roundWinner = "player1" THEN [g1 EXCEPT !.player1.wins = @ + 1]
            ELSE IF roundWinner = "player2" THEN [g1 EXCEPT !.player2.wins = @ + 1]
            ELSE g1
      g3 == IF g2.player1.wins >= WINNING_SCORE
            THEN [g2 EXCEPT !.gameStatus = "finished", !.winner = g2.player1.id]
            ELSE IF g2.player2.wins >= WINNING_SCORE
            THEN [g2 EXCEPT !.gameStatus = "finished", !.winner = g2.player2.id]
            ELSE g2
  IN IF roundWinner = "throw"
     THEN [gameState |-> gameState, threw |-> TRUE, roundComplete |-> FALSE,
           gameFinished |-> FALSE, roundWinner |-> Null]
     ELSE [gameState |-> g3, threw |-> FALSE, roundComplete |-> TRUE,
           gameFinished |-> g3.gameStatus = "finished", roundWinner |-> roundWinner]

processRound(gameState) ==
  LET move1 == gameState.player1.currentMove
      move2 == gameState.player2.currentMove
      roundWinner == determineWinner(move1, move2)
      entry == [round |-> gameState.currentRound, player1Move |-> move1,
                player2Move |-> move2, winner |-> roundWinner]
      g1 == [gameState EXCEPT !.moveHistory = Append(@, entry)]
      g2 == IF roundWinner = "player1" THEN [g1 EXCEPT !.player1.wins = @ + 1]
            ELSE IF roundWinner = "player2" THEN [g1 EXCEPT !.player2.wins = @ + 1]
            ELSE g1
      g3 == IF g2.player1.wins >= WINNING_SCORE
            THEN [g2 EXCEPT !.gameStatus = "finished", !.winner = g2.player1.id]
            ELSE IF g2.player2.wins >= WINNING_SCORE
            THEN [g2 EXCEPT !.gameStatus = "finished", !.winner = g2.player2.id]
            ELSE g2
  IN IF roundWinner = "throw"
     THEN [gameState |-> gameState, threw |-> TRUE, roundComplete |-> FALSE,
           gameFinished |-> FALSE, roundWinner |-> Null]
     ELSE [gameState |-> g3, threw |-> FALSE, roundComplete |-> TRUE,
           gameFinished |-> g3.gameStatus = "finished", roundWinner |-> roundWinner]

NotComplete(gameState, threw) ==
  [gameState |-> gameState, threw |-> threw, roundComplete |-> FALSE,
   gameFinished |-> FALSE, roundWinner |-> Null]

\* processMove (gameLogic): validate, store the move, resolve when both moved
processMoveEager(gameState, playerId, move) ==
  IF move \notin VALID_MOVES THEN NotComplete(gameState, TRUE)
  ELSE IF gameState.gameStatus # "playing" THEN NotComplete(gameState, TRUE)
  ELSE IF ~HasPlayer(gameState, playerId) THEN NotComplete(gameState, TRUE)
  ELSE LET g1 == IF gameState.player1.id = playerId
                 THEN [gameState EXCEPT !.player1.currentMove = move]
                 ELSE [gameState EXCEPT !.player2.currentMove = move]
       IN IF g1.player1.currentMove # Null \/ g1.player2.currentMove # Null
          THEN processRound([g1 EXCEPT
                 !.player1.currentMove = IF @ = Null THEN "rock" ELSE @,
                 !.player2.currentMove = IF @ = Null THEN "rock" ELSE @])
          ELSE NotComplete(g1, FALSE)

processMove(gameState, playerId, move) ==
  IF move \notin VALID_MOVES THEN NotComplete(gameState, TRUE)
  ELSE IF gameState.gameStatus # "playing" THEN NotComplete(gameState, TRUE)
  ELSE IF ~HasPlayer(gameState, playerId) THEN NotComplete(gameState, TRUE)
  ELSE LET g1 == IF gameState.player1.id = playerId
                 THEN [gameState EXCEPT !.player1.currentMove = move]
                 ELSE [gameState EXCEPT !.player2.currentMove = move]
       IN IF g1.player1.currentMove # Null /\ g1.player2.currentMove # Null
          THEN processRound(g1)
          ELSE NotComplete(g1, FALSE)

\* addPlayer without the reclaim of the own slot
addPlayerNoReclaim(gameState, playerId, socketId, walletAddress) ==
  IF gameState.player1.id = Null THEN
    [gameState |-> [gameState EXCEPT
        !.player1.id = playerId,
        !.player1.socketId = socketId,
        !.player1.wallet = walletAddress],
     playerPosition |-> "player1", threw |-> FALSE]
  ELSE IF gameState.player2.id = Null THEN
    [gameState |-> [gameState EXCEPT
        !.player2.id = playerId,
        !.player2.socketId = socketId,
        !.player2.wallet = walletAddress,
        !.gameStatus = "playing",
        !.currentRound = 1],
     playerPosition |-> "player2", threw |-> FALSE]
  ELSE [gameState |-> gameState, playerPosition |-> Null, threw |-> TRUE]

\* addPlayer (gameLogic): reclaim the own slot, else fill the first free slot
addPlayer(gameState, playerId, socketId, walletAddress) ==
  IF gameState.player1.id = playerId THEN
    [gameState |-> [gameState EXCEPT
        !.player1.socketId = socketId,
        !.player1.wallet = IF walletAddress # Null THEN walletAddress ELSE @,
        !.player1.currentMove = Null,
        !.player1.ready = "false"],
     playerPosition |-> "player1", threw |-> FALSE]
  ELSE IF gameState.player2.id = playerId THEN
    LET g1 == [gameState EXCEPT
                 !.player2.socketId = socketId,
                 !.player2.wallet = IF walletAddress # Null THEN walletAddress ELSE @,
                 !.player2.currentMove = Null,
                 !.player2.ready = "false"]
        g2 == IF g1.player1.id # Null /\ g1.player2.id # Null
                 /\ g1.gameStatus = "waiting_for_player"
              THEN [g1 EXCEPT !.gameStatus = "playing", !.currentRound = 1]
              ELSE g1
    IN [gameState |-> g2, playerPosition |-> "player2", threw |-> FALSE]
  ELSE IF gameState.player1.id = Null THEN
    [gameState |-> [gameState EXCEPT
        !.player1.id = playerId,
        !.player1.socketId = socketId,
        !.player1.wallet = walletAddress],
     playerPosition |-> "player1", threw |-> FALSE]
  ELSE IF gameState.player2.id = Null THEN
    [gameState |-> [gameState EXCEPT
        !.player2.id = playerId,
        !.player2.socketId = socketId,
        !.player2.wallet = walletAddress,
        !.gameStatus = "playing",
        !.currentRound = 1],
     playerPosition |-> "player2", threw |-> FALSE]
  ELSE [gameState |-> gameState, playerPosition |-> Null, threw |-> TRUE]

(***************************************************************************)
(* State                                                                   *)
(***************************************************************************)
MaxObjs == 3
ObjIds == 1..MaxObjs

VARIABLES
  objs,          \* heap of game state objects: ObjIds -> game state or NoGame
  games,         \* GameManager.games: game id -> object id, 0 when absent
  gameOrder,     \* insertion order of the keys of GameManager.games
  playerGames,   \* GameManager.playerGames: player id -> game id or Null
  publicQueue,   \* GameManager.publicQueue: sequence of tickets
  usedIds,       \* game ids uuidv4() has produced or clients have supplied
  gameTimers,    \* gameTimers: game id -> countdown of the live interval, -1 when none
  intervals,     \* per game id: setInterval timers created for it and not cleared
  pendingStart,  \* per game id: scheduled setTimeout(startRoundTimer) not yet fired
  onchainStatus, \* onchainStatus: game id -> the two on-chain flags of the entry
  playerSockets, \* playerSockets: player id -> socket id or Null
  socketPlayers, \* socketPlayers: socket id -> player id or Null
  closed,        \* sockets whose disconnect event has been delivered
  graceChecks,   \* scheduled deferred forfeit checks of the disconnect handler
  pending,       \* continuations of handlers suspended on an await
  notified,      \* per game id: settlement / abandonment notifications issued
  cleanups,      \* the scheduled setTimeout(cleanupOldGames(0)), oldest first: for
                 \* each the game objects that existed when it was scheduled
  disc,          \* per player: "no", "lost" (disconnect delivered), "expired" (5 s later)
  discGame,      \* per player: the playing game object getPlayerGame gave the
                 \* disconnect handler (0 when none or not playing); the object
                 \* is kept as long as it is recorded here
  crashed        \* an exception escaped a handler or a timer callback: the process
                 \* is down

vars == <<objs, games, gameOrder, playerGames, publicQueue, usedIds, gameTimers,
          intervals, pendingStart, onchainStatus, playerSockets, socketPlayers, closed, graceChecks,
          pending, notified, cleanups, disc, discGame, crashed>>

NoTimer == -1

NoNotice == [started |-> 0, completion |-> 0, abandonment |-> 0]

\* onchainStatus has no entry for the id
NoStatus == [has |-> FALSE, player1 |-> FALSE, player2 |-> FALSE]

\* onchainStatus.set(gameIdKey, { player1: false, player2: false })
FreshStatus == [has |-> TRUE, player1 |-> FALSE, player2 |-> FALSE]

\* the part of the state the GameManager methods read and write
Mgr == [objs |-> objs, games |-> games, gameOrder |-> gameOrder,
        playerGames |-> playerGames, publicQueue |-> publicQueue]

\* GameManager.getGame
getGame(M, gameId) ==
  IF gameId \notin GameIds THEN NoGame
  ELSE IF M.games[gameId] = 0 THEN NoGame ELSE M.objs[M.games[gameId]]

\* in-place mutation of the object the table holds under gameId
Mutate(M, gameId, gs) == [M EXCEPT !.objs[M.games[gameId]] = gs]

\* Map.set(gameId, object o): a new key goes to the end of the iteration order
SetGame(M, gameId, o) ==
  [M EXCEPT !.games[gameId] = o,
            !.gameOrder = IF M.games[gameId] = 0 THEN Append(@, gameId) ELSE @]

RemoveAt(seq, i) == [j \in 1..(Len(seq) - 1) |-> IF j < i THEN seq[j] ELSE seq[j + 1]]

\* the keys that remain, in order, after Map.delete of the keys in gone
WithoutKeys(seq, gone) ==
  LET F[i \in 0..Len(seq)] ==
        IF i = 0 THEN << >>
        ELSE IF seq[i] \notin gone THEN Append(F[i - 1], seq[i]) ELSE F[i - 1]
  IN F[Len(seq)]

Init ==
  /\ objs = [o \in ObjIds |-> NoGame]
  /\ games = [g \in GameIds |-> 0]
  /\ gameOrder = << >>
  /\ playerGames = [p \in Players |-> Null]
  /\ publicQueue = << >>
  /\ usedIds = {}
  /\ gameTimers = [g \in GameIds |-> NoTimer]
  /\ intervals = [g \in GameIds |-> 0]
  /\ pendingStart = [g \in GameIds |-> 0]
  /\ onchainStatus = [g \in GameIds |-> NoStatus]
  /\ playerSockets = [p \in Players |-> Null]
  /\ socketPlayers = [s \in Sockets |-> Null]
  /\ closed = {}
  /\ graceChecks = {}
  /\ pending = {}
  /\ notified = [g \in GameIds |-> NoNotice]
  /\ cleanups = << >>
  /\ disc = [p \in Players |-> "no"]
  /\ discGame = [p \in Players |-> 0]
  /\ crashed = FALSE

(***************************************************************************)
(* GameManager methods, as functions of the manager state M                *)
(***************************************************************************)
Fail(M, error) ==
  [M |-> M, success |-> FALSE, error |-> error, gameId |-> Null,
   roundComplete |-> FALSE, gameFinished |-> FALSE]

Ok(M, gameId) ==
  [M |-> M, success |-> TRUE, error |-> Null, gameId |-> gameId,
   roundComplete |-> FALSE, gameFinished |-> FALSE]

\* a validation that accepts every stake of a points or sol game
createGameErrorAnyStake(stakeAmount, currency) ==
  IF currency \in {"points", "sol"} THEN Null ELSE "Invalid currency"

\* createGame, validation of currency and stake
createGameError(stakeAmount, currency) ==
  IF currency = "points"
  THEN IF stakeAmount # PointsStake
       THEN "Points games must cost exactly 100 points" ELSE Null
  ELSE IF currency = "sol"
  THEN IF stakeAmount <= 0
       THEN "SOL games must have a positive stake amount" ELSE Null
  ELSE "Invalid currency"

\* createGame awaits databaseService.hasEnoughPoints
createGameAwaits(stakeAmount, currency, walletAddress) ==
  currency = "points" /\ stakeAmount = PointsStake /\ walletAddress # Null

\* createGame that clears the creator's entry of playerGames and sets none
createGameCommitUnmapped(M, o, gameType, stakeAmount, currency, creatorId, socketId, walletAddress, gameId) ==
  LET gameState == createGameState(gameType, stakeAmount, currency)
  IN IF creatorId # Null /\ socketId # Null
     THEN LET pg == [M.playerGames EXCEPT ![creatorId] = Null]
              added == addPlayer(gameState, creatorId, socketId, walletAddress).gameState
              updatedState == IF currency = "sol"
                              THEN [added EXCEPT !.player1.stakeDeposited = TRUE]
                              ELSE added
              M1 == SetGame([M EXCEPT !.objs[o] = updatedState], gameId, o)
          IN Ok([M1 EXCEPT !.playerGames = pg], gameId)
     ELSE Ok(SetGame([M EXCEPT !.objs[o] = gameState], gameId, o), gameId)

\* createGame after validation: build the state in object o and register it
createGameCommit(M, o, gameType, stakeAmount, currency, creatorId, socketId, walletAddress, gameId) ==
  LET gameState == createGameState(gameType, stakeAmount, currency)
  IN IF creatorId # Null /\ socketId # Null
     THEN LET pg == [M.playerGames EXCEPT ![creatorId] = Null]
              added == addPlayer(gameState, creatorId, socketId, walletAddress).gameState
              updatedState == IF currency = "sol"
                              THEN [added EXCEPT !.player1.stakeDeposited = TRUE]
                              ELSE added
              M1 == SetGame([M EXCEPT !.objs[o] = updatedState], gameId, o)
          IN Ok([M1 EXCEPT !.playerGames = [pg EXCEPT ![creatorId] = gameId]], gameId)
     ELSE Ok(SetGame([M EXCEPT !.objs[o] = gameState], gameId, o), gameId)

\* joinGame, the checks made before the balance check
joinGameError(M, gameId) ==
  LET gameState == getGame(M, gameId)
  IN IF gameState.gameStatus = "absent" THEN "Game not found"
     ELSE IF gameState.gameStatus = "finished" THEN "Game already finished"
     ELSE IF gameState.gameStatus = "playing" THEN "Game already in progress"
     ELSE Null

\* joinGame awaits databaseService.hasEnoughPoints
joinGameAwaits(M, gameId, walletAddress) ==
  getGame(M, gameId).currency = "points" /\ walletAddress # Null

\* joinGame that does not enter the joiner in playerGames
joinGameCommitUnmapped(M, gameId, o, playerId, socketId, walletAddress, hasPoints) ==
  IF ~hasPoints THEN Fail(M, "Insufficient points")
  ELSE
    LET pg == IF M.playerGames[playerId] # Null /\ M.playerGames[playerId] # gameId
              THEN [M.playerGames EXCEPT ![playerId] = Null]
              ELSE M.playerGames
        added == addPlayer(M.objs[o], playerId, socketId, walletAddress)
        updatedState == IF M.objs[o].currency = "sol"
                        THEN [added.gameState EXCEPT !.player2.stakeDeposited = TRUE]
                        ELSE added.gameState
        M1 == SetGame([M EXCEPT !.objs[o] = updatedState], gameId, o)
        pg1 == pg
        pg2 == IF updatedState.player1.id # Null
               THEN [pg1 EXCEPT ![updatedState.player1.id] = gameId]
               ELSE pg1
    IN IF added.threw
       THEN Fail([M EXCEPT !.playerGames = pg], "Game is full")
       ELSE Ok([M1 EXCEPT !.playerGames = pg2], gameId)

\* joinGame after the balance check, on the game state object o it looked up
\* before the check
joinGameCommit(M, gameId, o, playerId, socketId, walletAddress, hasPoints) ==
  IF ~hasPoints THEN Fail(M, "Insufficient points")
  ELSE
    LET pg == IF M.playerGames[playerId] # Null /\ M.playerGames[playerId] # gameId
              THEN [M.playerGames EXCEPT ![playerId] = Null]
              ELSE M.playerGames
        added == addPlayer(M.objs[o], playerId, socketId, walletAddress)
        updatedState == IF M.objs[o].currency = "sol"
                        THEN [added.gameState EXCEPT !.player2.stakeDeposited = TRUE]
                        ELSE added.gameState
        M1 == SetGame([M EXCEPT !.objs[o] = updatedState], gameId, o)
        pg1 == [pg EXCEPT ![playerId] = gameId]
        pg2 == IF updatedState.player1.id # Null
               THEN [pg1 EXCEPT ![updatedState.player1.id] = gameId]
               ELSE pg1
    IN IF added.threw
       THEN Fail([M EXCEPT !.playerGames = pg], "Game is full")
       ELSE Ok([M1 EXCEPT !.playerGames = pg2], gameId)

\* the last key, in insertion order, whose game satisfies test; Null when none
LastGame(M, playerId, playingOnly) ==
  LET hits == {i \in 1..Len(M.gameOrder) :
                 /\ HasPlayer(getGame(M, M.gameOrder[i]), playerId)
                 /\ playingOnly => getGame(M, M.gameOrder[i]).gameStatus = "playing"}
  IN IF hits = {} THEN Null
     ELSE M.gameOrder[CHOOSE i \in hits : \A j \in hits : j <= i]

\* a target choice that takes the hinted game before the entry of playerGames
submitMoveTargetHintFirst(M, playerId, requestedGameId) ==
  IF /\ getGame(M, requestedGameId).gameStatus # "absent"
     /\ HasPlayer(getGame(M, requestedGameId), playerId)
  THEN requestedGameId
  ELSE IF M.playerGames[playerId] # Null THEN M.playerGames[playerId]
  ELSE LastGame(M, playerId, FALSE)

\* submitMove, the game the move is applied to
submitMoveTarget(M, playerId, requestedGameId) ==
  IF M.playerGames[playerId] # Null THEN M.playerGames[playerId]
  ELSE LET requestedGame == getGame(M, requestedGameId)
           playing == LastGame(M, playerId, TRUE)
           any == LastGame(M, playerId, FALSE)
       IN IF requestedGameId # Null /\ requestedGame.gameStatus = "playing"
             /\ HasPlayer(requestedGame, playerId)
          THEN requestedGameId
          ELSE IF playing # Null THEN playing ELSE any

\* GameManager.submitMove
\* submitMove that stores the offered move although processMove rejected it
submitMoveKeepsRejected(M, playerId, move, requestedGameId) ==
  LET gameId == submitMoveTarget(M, playerId, requestedGameId)
      M1 == IF gameId # Null THEN [M EXCEPT !.playerGames[playerId] = gameId] ELSE M
      gameState == getGame(M1, gameId)
      r == processMove(gameState, playerId, move)
      g1 == IF gameState.player1.id = playerId
            THEN [gameState EXCEPT !.player1.currentMove = move]
            ELSE [gameState EXCEPT !.player2.currentMove = move]
  IN IF gameId = Null THEN Fail(M1, "Player not in any game")
     ELSE IF gameState.gameStatus = "absent" THEN Fail(M1, "Game not found")
     ELSE IF ~HasPlayer(gameState, playerId) THEN Fail(M1, "Player is not in this game")
     ELSE IF r.threw THEN Fail(Mutate(M1, gameId, g1), "processMove threw")
     ELSE [M |-> Mutate(M1, gameId, r.gameState), success |-> TRUE, error |-> Null,
           gameId |-> gameId, roundComplete |-> r.roundComplete,
           gameFinished |-> r.gameFinished]

submitMove(M, playerId, move, requestedGameId) ==
  LET gameId == submitMoveTarget(M, playerId, requestedGameId)
      M1 == IF gameId # Null THEN [M EXCEPT !.playerGames[playerId] = gameId] ELSE M
      gameState == getGame(M1, gameId)
      r == processMove(gameState, playerId, move)
  IN IF gameId = Null THEN Fail(M1, "Player not in any game")
     ELSE IF gameState.gameStatus = "absent" THEN Fail(M1, "Game not found")
     ELSE IF ~HasPlayer(gameState, playerId) THEN Fail(M1, "Player is not in this game")
     ELSE IF r.threw THEN Fail(M1, "processMove threw")
     ELSE [M |-> Mutate(M1, gameId, r.gameState), success |-> TRUE, error |-> Null,
           gameId |-> gameId, roundComplete |-> r.roundComplete,
           gameFinished |-> r.gameFinished]

\* GameManager.processRoundDirectly
processRoundDirectly(M, gameId) ==
  LET gameState == getGame(M, gameId)
      r == processRound(gameState)
  IN IF gameState.gameStatus = "absent" THEN Fail(M, "Game not found")
     ELSE IF gameState.player1.currentMove = Null \/ gameState.player2.currentMove = Null
     THEN Fail(M, "Both players must have moves to process round")
     ELSE IF r.threw THEN Fail(M, "processRound threw")
     ELSE [M |-> Mutate(M, gameId, r.gameState), success |-> TRUE, error |-> Null,
           gameId |-> gameId, roundComplete |-> r.roundComplete,
           gameFinished |-> r.gameFinished]

\* index of the first ticket of playerId in the queue, 0 when none
QueueIndex(queue, playerId) ==
  LET hits == {i \in 1..Len(queue) : queue[i].playerId = playerId}
  IN IF hits = {} THEN 0 ELSE CHOOSE i \in hits : \A j \in hits : i <= j

\* GameManager.removePlayer
\* removePlayer that names the leaver, not the remaining player, as winner
removePlayerLeaverWins(M, playerId) ==
  LET queueIndex == QueueIndex(M.publicQueue, playerId)
      M1 == IF queueIndex # 0
            THEN [M EXCEPT !.publicQueue = RemoveAt(@, queueIndex)] ELSE M
      gameId == M1.playerGames[playerId]
      gameState == getGame(M1, gameId)
      g1 == IF gameState.player1.id = playerId
            THEN [gameState EXCEPT !.player1 = RemovedSlot]
            ELSE IF gameState.player2.id = playerId
            THEN [gameState EXCEPT !.player2 = RemovedSlot]
            ELSE gameState
      remainingPlayer == IF g1.player1.id # Null THEN g1.player1.id ELSE g1.player2.id
      g2 == IF g1.player1.id = Null /\ g1.player2.id = Null
            THEN [g1 EXCEPT !.gameStatus = "finished"]
            ELSE IF g1.gameStatus = "playing"
            THEN [g1 EXCEPT !.gameStatus = "finished", !.winner = playerId]
            ELSE g1
      M2 == [Mutate(M1, gameId, g2) EXCEPT !.playerGames[playerId] = Null]
  IN IF gameId = Null THEN Fail(M1, "Player not in any game")
     ELSE IF gameState.gameStatus = "absent" THEN Fail(M1, "Game not found")
     ELSE Ok(M2, gameId)

\* removePlayer without playerGames.delete
removePlayerKeepsEntry(M, playerId) ==
  LET queueIndex == QueueIndex(M.publicQueue, playerId)
      M1 == IF queueIndex # 0
            THEN [M EXCEPT !.publicQueue = RemoveAt(@, queueIndex)] ELSE M
      gameId == M1.playerGames[playerId]
      gameState == getGame(M1, gameId)
      g1 == IF gameState.player1.id = playerId
            THEN [gameState EXCEPT !.player1 = RemovedSlot]
            ELSE IF gameState.player2.id = playerId
            THEN [gameState EXCEPT !.player2 = RemovedSlot]
            ELSE gameState
      remainingPlayer == IF g1.player1.id # Null THEN g1.player1.id ELSE g1.player2.id
      g2 == IF g1.player1.id = Null /\ g1.player2.id = Null
            THEN [g1 EXCEPT !.gameStatus = "finished"]
            ELSE IF g1.gameStatus = "playing"
            THEN [g1 EXCEPT !.gameStatus = "finished", !.winner = remainingPlayer]
            ELSE g1
      M2 == Mutate(M1, gameId, g2)
  IN IF gameId = Null THEN Fail(M1, "Player not in any game")
     ELSE IF gameState.gameStatus = "absent" THEN Fail(M1, "Game not found")
     ELSE Ok(M2, gameId)

removePlayer(M, playerId) ==
  LET queueIndex == QueueIndex(M.publicQueue, playerId)
      M1 == IF queueIndex # 0
            THEN [M EXCEPT !.publicQueue = RemoveAt(@, queueIndex)] ELSE M
      gameId == M1.playerGames[playerId]
      gameState == getGame(M1, gameId)
      g1 == IF gameState.player1.id = playerId
            THEN [gameState EXCEPT !.player1 = RemovedSlot]
            ELSE IF gameState.player2.id = playerId
            THEN [gameState EXCEPT !.player2 = RemovedSlot]
            ELSE gameState
      remainingPlayer == IF g1.player1.id # Null THEN g1.player1.id ELSE g1.player2.id
      g2 == IF g1.player1.id = Null /\ g1.player2.id = Null
            THEN [g1 EXCEPT !.gameStatus = "finished"]
            ELSE IF g1.gameStatus = "playing"
            THEN [g1 EXCEPT !.gameStatus = "finished", !.winner = remainingPlayer]
            ELSE g1
      M2 == [Mutate(M1, gameId, g2) EXCEPT !.playerGames[playerId] = Null]
  IN IF gameId = Null THEN Fail(M1, "Player not in any game")
     ELSE IF gameState.gameStatus = "absent" THEN Fail(M1, "Game not found")
     ELSE Ok(M2, gameId)

\* GameManager.processPointsRefund up to its await: the refundPoints calls it
\* makes, read from the game as removePlayer left it
processPointsRefund(M, gameId, playerId, stakeAmount) ==
  LET gameState == getGame(M, gameId)
      playerWallet == IF gameState.player1.id = playerId THEN gameState.player1.wallet
                      ELSE IF gameState.player2.id = playerId THEN gameState.player2.wallet
                      ELSE Null
  IN IF gameState.gameStatus = "absent" THEN {}
     ELSE IF playerWallet = Null THEN {}
     ELSE {[wallet |-> playerWallet, amount |-> stakeAmount, gameId |-> gameId]}

\* removePlayer, the waiting_for_player branch: the refund calls it issues
\* (refundPoints for a points game, refundSolBeforeStart for a sol game). The
\* branch is the third of an else-if chain, after the slot was cleared.
removePlayerRefunds(M, playerId) ==
  LET r == removePlayer(M, playerId)
      gameState == getGame(r.M, r.gameId)
      playerWallet == IF gameState.player1.id = playerId THEN gameState.player1.wallet
                      ELSE IF gameState.player2.id = playerId THEN gameState.player2.wallet
                      ELSE Null
  IN IF ~r.success THEN {}
     ELSE IF gameState.player1.id = Null /\ gameState.player2.id = Null THEN {}
     ELSE IF gameState.gameStatus # "waiting_for_player" THEN {}
     ELSE IF gameState.currency = "points"
     THEN processPointsRefund(r.M, r.gameId, playerId, gameState.stakeAmount)
     ELSE IF gameState.currency = "sol" /\ playerWallet # Null
     THEN {[wallet |-> playerWallet, amount |-> gameState.stakeAmount, gameId |-> r.gameId]}
     ELSE {}

\* GameManager.cleanupOldGames(maxAge); older is the set of games for which
\* now - createdAt > maxAge at the time of the call
cleanupOldGamesAged(M, older) ==
  LET gone == {g \in older : getGame(M, g).gameStatus = "finished"}
      inGone(p) == \E g \in gone : HasPlayer(getGame(M, g), p)
  IN [M EXCEPT
        !.playerGames = [p \in Players |-> IF inGone(p) THEN Null ELSE @[p]],
        !.games = [g \in GameIds |-> IF g \in gone THEN 0 ELSE @[g]],
        !.gameOrder = WithoutKeys(@, gone)]

\* GameManager.getPlayerGame: the game STATE of the player's game (NoGame for
\* the null it returns when there is none)
getPlayerGame(M, playerId) ==
  IF M.playerGames[playerId] = Null THEN NoGame
  ELSE getGame(M, M.playerGames[playerId])

\* a lookup that finds the game whose state it is given
getGameByStateFound(M, gameState) == gameState

\* games.get(key) for a key that is a game state: the keys of the table are
\* id strings, and no object is equal to a string
getGameByState(M, gameState) == NoGame

\* an entry of publicQueue (queuedAt is never read)
Ticket(playerId, socketId, stakeAmount, currency, walletAddress) ==
  [playerId |-> playerId, socketId |-> socketId, stakeAmount |-> stakeAmount,
   currency |-> currency, walletAddress |-> walletAddress]

NoTicket == Ticket(Null, Null, 0, Null, Null)

\* a filter that keeps every ticket
KeepTickets(queue, playerId) == queue

\* publicQueue.filter(p => p.playerId !== playerId)
WithoutTickets(queue, playerId) ==
  LET F[i \in 0..Len(queue)] ==
        IF i = 0 THEN << >>
        ELSE IF queue[i].playerId # playerId THEN Append(F[i - 1], queue[i])
        ELSE F[i - 1]
  IN F[Len(queue)]

\* what findRandomMatch returns, or (k # Null) the await it is suspended at
FindResult(r, gameStarted, created) ==
  [M |-> r.M, success |-> r.success, error |-> r.error, gameId |-> r.gameId,
   gameStarted |-> gameStarted, created |-> created,
   k |-> Null, obj |-> 0, queued |-> NoTicket,
   stakeAmount |-> 0, currency |-> Null]

FindWait(M, k, gameId, obj, queued, stakeAmount, currency, created) ==
  [M |-> M, success |-> FALSE, error |-> Null, gameId |-> gameId,
   gameStarted |-> FALSE, created |-> created,
   k |-> k, obj |-> obj, queued |-> queued,
   stakeAmount |-> stakeAmount, currency |-> currency]

\* findRandomMatch, the fallback: replace the own ticket and create a
\* placeholder game; the placeholder's createGame resumed after its balance check
findEnqueueResume(M, o, gameId, playerId, socketId, stakeAmount, currency, walletAddress, hasPoints, created) ==
  IF ~hasPoints
  THEN FindResult(Fail(M, "Failed to enter matchmaking queue"), FALSE, created)
  ELSE FindResult(createGameCommit(M, o, "public", stakeAmount, currency,
                                   playerId, socketId, walletAddress, gameId),
                  FALSE, TRUE)

findEnqueue(M, o, gameId, playerId, socketId, stakeAmount, currency, walletAddress, created) ==
  LET M1 == [M EXCEPT !.publicQueue =
                Append(WithoutTickets(@, playerId),
                       Ticket(playerId, socketId, stakeAmount, currency, walletAddress))]
  IN IF createGameError(stakeAmount, currency) # Null
     THEN FindResult(Fail(M1, "Failed to enter matchmaking queue"), FALSE, created)
     ELSE IF createGameAwaits(stakeAmount, currency, walletAddress)
     THEN FindWait(M1, "findCreate", Null, 0, NoTicket, stakeAmount, currency, created)
     ELSE findEnqueueResume(M1, o, gameId, playerId, socketId, stakeAmount,
                            currency, walletAddress, TRUE, created)

\* findRandomMatch, the join of the game created for the queued player, resumed
\* after the balance check of joinGame on the object obj it looked up; a failed
\* join falls through to the fallback, which creates under newId in object o
findPairJoinResume(M, o, newId, gameId, obj, playerId, socketId, stakeAmount, currency, walletAddress, hasPoints, created) ==
  LET r == joinGameCommit(M, gameId, obj, playerId, socketId, walletAddress, hasPoints)
  IN IF r.success THEN FindResult(r, TRUE, created)
     ELSE findEnqueue(r.M, o, newId, playerId, socketId, stakeAmount, currency,
                      walletAddress, created)

\* findRandomMatch, the createGame for the queued player resumed after its
\* balance check, then the joinGame of the requester (the game it joins was
\* created in this step: it is waiting, and its first slot is the queued player)
findPairResume(M, o, gameId, queuedPlayer, playerId, socketId, stakeAmount, currency, walletAddress, hasPoints) ==
  IF ~hasPoints
  THEN findEnqueue(M, o, gameId, playerId, socketId, stakeAmount, currency,
                   walletAddress, FALSE)
  ELSE LET M1 == createGameCommit(M, o, "public", stakeAmount, currency,
                    queuedPlayer.playerId, queuedPlayer.socketId,
                    queuedPlayer.walletAddress, gameId).M
       IN IF joinGameAwaits(M1, gameId, walletAddress)
          THEN FindWait(M1, "findPairJoin", gameId, o, NoTicket, stakeAmount,
                        currency, TRUE)
          ELSE FindResult(joinGameCommit(M1, gameId, o, playerId, socketId,
                                         walletAddress, TRUE), TRUE, TRUE)

\* findRandomMatch behind `await this.createGame(...)` for the queued player,
\* when createGame did not wait for the database: gameId is the game it
\* created (Null when it failed); joinGame looks the game up again, and a
\* failed join falls through to the fallback, which creates under newId in o
findPairedResume(M, o, newId, gameId, playerId, socketId, stakeAmount, currency, walletAddress, created) ==
  IF gameId = Null
  THEN findEnqueue(M, o, newId, playerId, socketId, stakeAmount, currency,
                   walletAddress, created)
  ELSE IF joinGameError(M, gameId) # Null
  THEN findEnqueue(M, o, newId, playerId, socketId, stakeAmount, currency,
                   walletAddress, created)
  ELSE IF joinGameAwaits(M, gameId, walletAddress)
  THEN FindWait(M, "findPairJoin", gameId, M.games[gameId], NoTicket, stakeAmount,
                currency, created)
  ELSE findPairJoinResume(M, o, newId, gameId, M.games[gameId], playerId, socketId,
                          stakeAmount, currency, walletAddress, TRUE, created)

\* findRandomMatch that runs on after a database answer: nothing comes between
\* the createGame for the queued player and the rest
findSettled(r, o, newId, playerId, socketId, walletAddress) ==
  IF r.k = "findPaired"
  THEN findPairedResume(r.M, o, newId, r.gameId, playerId, socketId, r.stakeAmount,
                        r.currency, walletAddress, r.created)
  ELSE r

\* findRandomMatch, the first ticket of another player with the same stake
findPair(M, o, gameId, playerId, socketId, stakeAmount, currency, walletAddress) ==
  LET hits == {i \in 1..Len(M.publicQueue) :
                 /\ M.publicQueue[i].playerId # playerId
                 /\ M.publicQueue[i].stakeAmount = stakeAmount
                 /\ M.publicQueue[i].currency = currency}
      queuedPlayer == M.publicQueue[CHOOSE i \in hits : \A j \in hits : i <= j]
      M1 == [M EXCEPT !.publicQueue = WithoutTickets(@, queuedPlayer.playerId)]
  IN IF hits = {}
     THEN findEnqueue(M, o, gameId, playerId, socketId, stakeAmount, currency,
                      walletAddress, FALSE)
     ELSE IF createGameError(stakeAmount, currency) # Null
     THEN FindWait(M1, "findPaired", Null, 0, NoTicket, stakeAmount, currency, FALSE)
     ELSE IF createGameAwaits(stakeAmount, currency, queuedPlayer.walletAddress)
     THEN FindWait(M1, "findPairCreate", Null, 0, queuedPlayer, stakeAmount,
                   currency, FALSE)
     ELSE FindWait(createGameCommit(M1, o, "public", stakeAmount, currency,
                     queuedPlayer.playerId, queuedPlayer.socketId,
                     queuedPlayer.walletAddress, gameId).M,
                   "findPaired", gameId, o, NoTicket, stakeAmount, currency, TRUE)

\* findRandomMatch, the joinGame of a waiting game resumed after its balance check
findJoinResume(M, gameId, obj, playerId, socketId, walletAddress, hasPoints) ==
  LET r == joinGameCommit(M, gameId, obj, playerId, socketId, walletAddress, hasPoints)
  IN FindResult(r, r.success /\ r.M.objs[obj].gameStatus = "playing", FALSE)

\* a scan that finds no game
findScanNone(M, o, gameId, playerId, socketId, stakeAmount, currency, walletAddress) ==
  findPair(M, o, gameId, playerId, socketId, stakeAmount, currency, walletAddress)

\* findRandomMatch, the scan of the game table in insertion order
findScan(M, o, gameId, playerId, socketId, stakeAmount, currency, walletAddress) ==
  LET hits == {i \in 1..Len(M.gameOrder) :
                 LET gameState == getGame(M, M.gameOrder[i])
                 IN /\ gameState.gameType = "public"
                    /\ gameState.gameStatus = "waiting_for_player"
                    /\ gameState.stakeAmount = stakeAmount
                    /\ gameState.currency = currency
                    /\ gameState.player1.id # playerId}
      found == M.gameOrder[CHOOSE i \in hits : \A j \in hits : i <= j]
  IN IF hits = {}
     THEN findPair(M, o, gameId, playerId, socketId, stakeAmount, currency,
                   walletAddress)
     ELSE IF joinGameAwaits(M, found, walletAddress)
     THEN FindWait(M, "findJoin", found, M.games[found], NoTicket, stakeAmount,
                   currency, FALSE)
     ELSE findJoinResume(M, found, M.games[found], playerId, socketId,
                         walletAddress, TRUE)

\* 0.01 SOL, the stake a points request falls back to (stakes of sol games are
\* counted in hundredths)
SolFallbackStake == 1

\* findRandomMatch resumed after its own balance check
findCheckResume(M, o, gameId, playerId, socketId, walletAddress, hasPoints) ==
  IF hasPoints
  THEN findScan(M, o, gameId, playerId, socketId, PointsStake, "points", walletAddress)
  ELSE findScan(M, o, gameId, playerId, socketId, SolFallbackStake, "sol", walletAddress)

\* findRandomMatch without the removePlayer of a player who is in a game
findRandomMatchNoLeave(M, o, gameId, playerId, socketId, stakeAmount, currency, walletAddress) ==
  LET M1 == M
  IN IF currency = "points"
     THEN IF walletAddress # Null
          THEN FindWait(M1, "findCheck", Null, 0, NoTicket, PointsStake, currency, FALSE)
          ELSE findScan(M1, o, gameId, playerId, socketId, PointsStake, currency,
                        walletAddress)
     ELSE findScan(M1, o, gameId, playerId, socketId, stakeAmount, currency,
                   walletAddress)

\* GameManager.findRandomMatch up to its return or its first real await
findRandomMatch(M, o, gameId, playerId, socketId, stakeAmount, currency, walletAddress) ==
  LET existingGame == getPlayerGame(M, playerId)
      M1 == IF /\ M.playerGames[playerId] # Null
               /\ existingGame.gameStatus # "absent"
               /\ existingGame.gameStatus # "finished"
            THEN removePlayer(M, playerId).M
            ELSE M
  IN IF currency = "points"
     THEN IF walletAddress # Null
          THEN FindWait(M1, "findCheck", Null, 0, NoTicket, PointsStake, currency, FALSE)
          ELSE findScan(M1, o, gameId, playerId, socketId, PointsStake, currency,
                        walletAddress)
     ELSE findScan(M1, o, gameId, playerId, socketId, stakeAmount, currency,
                   walletAddress)

(***************************************************************************)
(* Socket handler helpers, as functions of the handler state H             *)
(***************************************************************************)
Hs == [M |-> Mgr, gameTimers |-> gameTimers, intervals |-> intervals,
       notified |-> notified, cleanups |-> cleanups, pendingStart |-> pendingStart,
       onchainStatus |-> onchainStatus]

\* if (gameTimers.has(gameId)) { clearInterval(gameTimers.get(gameId));
\* gameTimers.delete(gameId) }
clearTimer(H, gameId) ==
  IF H.gameTimers[gameId] = NoTimer THEN H
  ELSE [H EXCEPT !.gameTimers[gameId] = NoTimer, !.intervals[gameId] = @ - 1]

\* startRoundTimer that does not clear the interval the game already has
startRoundTimerKeepsOld(H, gameId) ==
  [H EXCEPT !.gameTimers[gameId] = RoundDuration, !.intervals[gameId] = @ + 1]

\* startRoundTimer: clear the interval the game has, then setInterval with a
\* fresh countdown and gameTimers.set
startRoundTimer(H, gameId) ==
  [clearTimer(H, gameId) EXCEPT !.gameTimers[gameId] = RoundDuration,
                                !.intervals[gameId] = @ + 1]

\* startNextRound without the call of startRoundTimer
startNextRoundUnarmed(H, gameId) ==
  LET gameState == getGame(H.M, gameId)
      next == [gameState EXCEPT !.currentRound = @ + 1,
                                !.player1.currentMove = Null,
                                !.player2.currentMove = Null,
                                !.player1.ready = "false",
                                !.player2.ready = "false"]
  IN IF gameState.gameStatus # "playing" THEN H
     ELSE [H EXCEPT !.M = Mutate(H.M, gameId, next)]

\* startNextRound without the test of the status
startNextRoundAnyStatus(H, gameId) ==
  LET gameState == getGame(H.M, gameId)
      next == [gameState EXCEPT !.currentRound = @ + 1,
                                !.player1.currentMove = Null,
                                !.player2.currentMove = Null,
                                !.player1.ready = "false",
                                !.player2.ready = "false"]
  IN IF gameState.gameStatus = "absent" THEN H
     ELSE startRoundTimer([H EXCEPT !.M = Mutate(H.M, gameId, next)], gameId)

\* startNextRound
startNextRound(H, gameId) ==
  LET gameState == getGame(H.M, gameId)
      next == [gameState EXCEPT !.currentRound = @ + 1,
                                !.player1.currentMove = Null,
                                !.player2.currentMove = Null,
                                !.player1.ready = "false",
                                !.player2.ready = "false"]
  IN IF gameState.gameStatus # "playing" THEN H
     ELSE startRoundTimer([H EXCEPT !.M = Mutate(H.M, gameId, next)], gameId)

\* handleGameFinished, the test that opens settlement processing
settlementDueUnguarded(gameState) == gameState.winner # Null

settlementDue(gameState) == gameState.winner # Null /\ ~gameState.processed

\* processGameCompletion up to its first await: the second guard, the wallet
\* checks and the call of the profile store / finalization service
processGameCompletion(H, gameId) ==
  LET gameState == getGame(H.M, gameId)
      gameWinner == IF gameState.winner = gameState.player1.id THEN "player1" ELSE "player2"
      winnerWallet == IF gameWinner = "player1" THEN gameState.player1.wallet
                      ELSE gameState.player2.wallet
      marked == [gameState EXCEPT !.completionProcessed = TRUE]
      H1 == [H EXCEPT !.M = Mutate(H.M, gameId, marked)]
  IN IF gameState.completionProcessed THEN H
     ELSE IF gameState.player1.wallet = Null \/ gameState.player2.wallet = Null THEN H1
     ELSE IF winnerWallet = Null THEN H1
     ELSE [H1 EXCEPT !.notified[gameId].completion = @ + 1]

\* handleGameFinished
handleGameFinished(H, gameId) ==
  LET gameState == getGame(H.M, gameId)
      H1 == clearTimer(H, gameId)
      H2 == IF settlementDue(gameState)
            THEN processGameCompletion(
                   [H1 EXCEPT !.M = Mutate(H1.M, gameId,
                                           [gameState EXCEPT !.processed = TRUE]),
                              !.notified[gameId].started = @ + 1],
                   gameId)
            ELSE H1
      pg == [p \in Players |->
               IF p = gameState.player1.id \/ p = gameState.player2.id
               THEN Null ELSE H2.M.playerGames[p]]
  IN [H2 EXCEPT !.M.playerGames = pg,
                !.cleanups = Append(@, {H2.M.games[g] : g \in GameIds} \ {0})]

\* the part of a handler that follows a completed round
afterRound(H, gameId, gameFinished) ==
  IF gameFinished THEN handleGameFinished(H, gameId) ELSE startNextRound(H, gameId)

\* a shuffle that may put the same move first and second
shuffledMovesAny(moves) == moves \X moves

\* handleTimeUp, shuffledMoves[0] and shuffledMoves[1] of a random permutation
shuffledMoves(moves) == {pair \in moves \X moves : pair[1] # pair[2]}

\* handleTimeUp, with the moves Math.random() selects
handleTimeUp(H, gameId, random1, random2) ==
  LET gameState == getGame(H.M, gameId)
      needs1 == gameState.player1.currentMove = Null /\ gameState.player1.id # Null
      needs2 == gameState.player2.currentMove = Null /\ gameState.player2.id # Null
      assigned == [gameState EXCEPT
                     !.player1.currentMove = IF needs1 THEN random1 ELSE @,
                     !.player2.currentMove = IF needs2 THEN random2 ELSE @]
      H1 == [H EXCEPT !.M = Mutate(H.M, gameId, assigned)]
      r == processRoundDirectly(H1.M, gameId)
  IN IF gameState.gameStatus = "absent" THEN H
     ELSE IF ~(needs1 \/ needs2) THEN H
     ELSE IF assigned.player1.currentMove = Null \/ assigned.player2.currentMove = Null
     THEN H1
     ELSE IF r.success /\ r.roundComplete
     THEN afterRound([H1 EXCEPT !.M = r.M], gameId, r.gameFinished)
     ELSE H1

\* objects still reachable from the table or from a suspended joinGame, and
\* the objects the disconnect handler was given: such an object stays what it
\* is when the table drops it, and no later game is the same object
Reachable(gms, pend, held) ==
  {gms[g] : g \in GameIds} \cup {c.obj : c \in pend} \cup {held[p] : p \in Players}

Referenced(gms, pend) == Reachable(gms, pend, discGame)

FreeObjs == ObjIds \ Referenced(games, pending)

\* the continuations behind an `await` of a call that has already completed
\* (gameManager.joinGame, createGame or findRandomMatch without a database
\* call): they run as microtasks, in the order of their suspension, before
\* any timer, database answer or packet of another client
TailKinds == {"joinTail", "createTail", "findTail", "findPaired"}

Tails(pend) == {c \in pend : c.k \in TailKinds}

\* two suspended calls with the same arguments
Same(c, d) == [c EXCEPT !.n = 0] = [d EXCEPT !.n = 0]

\* the handler suspends with the continuation c: a microtask goes to the back
\* of the microtask queue, a database call is one more call in flight
Suspend(pend, c) ==
  IF c.k \in TailKinds
  THEN pend \cup {[c EXCEPT !.n = Cardinality(Tails(pend)) + 1]}
  ELSE pend \cup {[c EXCEPT !.n = Cardinality({d \in pend : Same(c, d)}) + 1]}

\* the continuation c has run
Resumed(pend, c) ==
  {IF (c.k \in TailKinds /\ d.k \in TailKinds) \/ (Same(c, d) /\ d.n > c.n)
   THEN [d EXCEPT !.n = @ - 1] ELSE d : d \in pend \ {c}}

NewObj == CHOOSE o \in FreeObjs : \A o2 \in FreeObjs : o <= o2

WithinBounds(H) ==
  /\ \A o \in ObjIds : H.M.objs[o].gameStatus # "absent" =>
        /\ Len(H.M.objs[o].moveHistory) <= MaxHistory
        /\ H.M.objs[o].currentRound <= MaxRound
  /\ Len(H.cleanups) <= MaxCleanups
  /\ \A g \in GameIds : H.pendingStart[g] <= MaxStarts

\* write back the handler state and the continuations
Install(H, pend) ==
  /\ WithinBounds(H)
  /\ Cardinality(pend) <= MaxPending
  /\ pending' = pend
  /\ objs' = [o \in ObjIds |->
                IF o \in Reachable(H.M.games, pend, discGame') THEN H.M.objs[o] ELSE NoGame]
  /\ games' = H.M.games
  /\ gameOrder' = H.M.gameOrder
  /\ playerGames' = H.M.playerGames
  /\ publicQueue' = H.M.publicQueue
  /\ gameTimers' = H.gameTimers
  /\ intervals' = H.intervals
  /\ notified' = H.notified
  /\ cleanups' = [i \in 1..Len(H.cleanups) |->
                    H.cleanups[i] \cap Reachable(H.M.games, pend, discGame')]
  /\ pendingStart' = H.pendingStart
  /\ onchainStatus' = H.onchainStatus

(***************************************************************************)
(* Handlers                                                                *)
(***************************************************************************)
Cont(k, s, gameId, obj, walletAddress, gameType, stakeAmount, currency) ==
  [k |-> k, playerId |-> Owner(s), socketId |-> s, gameId |-> gameId, obj |-> obj,
   wallet |-> walletAddress, gameType |-> gameType, stakeAmount |-> stakeAmount,
   currency |-> currency, queued |-> NoTicket, n |-> 0]

\* a findRandomMatch suspended at the await r.k
FindCont(s, walletAddress, r) ==
  [Cont(r.k, s, r.gameId, r.obj, walletAddress, "public", r.stakeAmount, r.currency)
     EXCEPT !.queued = r.queued]

\* playerSockets.set / socketPlayers.set at the head of create_game and join_game
Associate(s) ==
  /\ playerSockets' = [playerSockets EXCEPT ![Owner(s)] = s]
  /\ socketPlayers' = [socketPlayers EXCEPT ![s] = Owner(s)]

\* a packet of the client s is dispatched: the process is up, the socket is
\* open, and the microtasks still queued come from packets of s that were
\* dispatched in the same turn of the event loop
Live(s) ==
  /\ ~crashed
  /\ s \notin closed
  /\ \A c \in Tails(pending) : c.socketId = s

\* a timer, a database answer or a request starts a turn of the event loop:
\* the microtask queue is empty
Idle == ~crashed /\ Tails(pending) = {}

\* if (!onchainStatus.has(gameIdKey)) onchainStatus.set(gameIdKey, {...})
initOnchainStatus(H, gameId) ==
  IF H.onchainStatus[gameId].has THEN H
  ELSE [H EXCEPT !.onchainStatus[gameId] = FreshStatus]

\* create_game after a successful createGame (result.gameState is object o)
createTail(H, gameId, o) ==
  LET gameState == H.M.objs[o]
  IN IF gameState.currency = "sol" /\ gameState.gameType = "private"
     THEN initOnchainStatus(H, gameId)
     ELSE H

\* socket.on('create_game')
create_game(s, gameType, stakeAmount, currency, walletAddress, gameId) ==
  /\ Live(s)
  /\ Associate(s)
  /\ usedIds' = usedIds \cup {gameId}
  /\ UNCHANGED <<closed, graceChecks, disc, discGame, crashed>>
  /\ IF createGameError(stakeAmount, currency) # Null
     THEN Install(Hs, pending)
     ELSE IF createGameAwaits(stakeAmount, currency, walletAddress)
     THEN Install(Hs, Suspend(pending,
            Cont("create", s, gameId, 0, walletAddress, gameType, stakeAmount, currency)))
     ELSE /\ FreeObjs # {}
          /\ Install([Hs EXCEPT !.M = createGameCommit(Mgr, NewObj, gameType,
                        stakeAmount, currency, Owner(s), s, walletAddress, gameId).M,
                                !.notified[gameId] = NoNotice],
                     IF currency = "sol" /\ gameType = "private"
                     THEN Suspend(pending, Cont("createTail", s, gameId, NewObj,
                                  walletAddress, gameType, stakeAmount, currency))
                     ELSE pending)

\* createGame resumes after hasEnoughPoints
CreateResume(c, hasPoints) ==
  /\ Idle
  /\ c \in pending /\ c.k = "create"
  /\ UNCHANGED <<usedIds, playerSockets, socketPlayers, closed, graceChecks, disc, discGame, crashed>>
  /\ IF ~hasPoints
     THEN Install(Hs, Resumed(pending, c))
     ELSE LET free == ObjIds \ Referenced(games, pending \ {c})
              o == CHOOSE x \in free : \A y \in free : x <= y
              r == createGameCommit(Mgr, o, c.gameType, c.stakeAmount, c.currency,
                                    c.playerId, c.socketId, c.wallet, c.gameId)
          IN /\ free # {}
             /\ Install(createTail([Hs EXCEPT !.M = r.M, !.notified[c.gameId] = NoNotice],
                                    c.gameId, o),
                        Resumed(pending, c))

\* join_game after a successful joinGame: result.gameState (object o) has both
\* players and is playing, and the game is not a private sol game
joinStartsTimer(gameState) ==
  /\ gameState.player1.id # Null
  /\ gameState.player2.id # Null
  /\ gameState.gameStatus = "playing"
  /\ ~(gameState.currency = "sol" /\ gameState.gameType = "private")

\* join_game after a successful joinGame, result.gameState being object o
joinTail(H, gameId, o) ==
  LET gameState == H.M.objs[o]
      H1 == IF gameState.currency = "sol" /\ gameState.gameType = "private"
            THEN initOnchainStatus(H, gameId)
            ELSE H
  IN IF joinStartsTimer(gameState)
     THEN [H1 EXCEPT !.pendingStart[gameId] = @ + 1]
     ELSE H1

\* joinGame has returned r on object o, and join_game goes on at once
afterJoin(H, r, gameId, o) ==
  IF r.success
  THEN joinTail([H EXCEPT !.M = r.M], gameId, o)
  ELSE [H EXCEPT !.M = r.M]

\* socket.on('join_game')
join_game(s, gameId, walletAddress) ==
  /\ Live(s)
  /\ Associate(s)
  /\ UNCHANGED <<usedIds, closed, graceChecks, disc, discGame, crashed>>
  /\ IF joinGameError(Mgr, gameId) # Null
     THEN Install(Hs, pending)
     ELSE IF joinGameAwaits(Mgr, gameId, walletAddress)
     THEN Install(Hs, Suspend(pending,
            Cont("join", s, gameId, games[gameId], walletAddress, Null, 0, Null)))
     ELSE LET r == joinGameCommit(Mgr, gameId, games[gameId], Owner(s), s,
                                  walletAddress, TRUE)
          IN Install([Hs EXCEPT !.M = r.M],
                     IF r.success
                     THEN Suspend(pending, Cont("joinTail", s, gameId, games[gameId],
                                                walletAddress, Null, 0, Null))
                     ELSE pending)

\* joinGame resumes after hasEnoughPoints, then join_game finishes
JoinResume(c, hasPoints) ==
  /\ Idle
  /\ c \in pending /\ c.k = "join"
  /\ UNCHANGED <<usedIds, playerSockets, socketPlayers, closed, graceChecks, disc, discGame, crashed>>
  /\ LET r == joinGameCommit(Mgr, c.gameId, c.obj, c.playerId, c.socketId,
                             c.wallet, hasPoints)
     IN Install(afterJoin(Hs, r, c.gameId, c.obj), Resumed(pending, c))

\* find_random_match after findRandomMatch returned: a started points game
\* gets its first round timer scheduled
findStartsTimer(gameState) == gameState.currency # "sol"

\* find_random_match after findRandomMatch returned a started game,
\* result.gameState being object o
findTail(H, gameId, o) ==
  IF findStartsTimer(H.M.objs[o])
  THEN [H EXCEPT !.pendingStart[gameId] = @ + 1]
  ELSE initOnchainStatus(H, gameId)

\* the manager state findRandomMatch leaves
afterFind(H, r) ==
  LET H1 == IF r.created THEN [H EXCEPT !.notified[r.gameId] = NoNotice] ELSE H
  IN [H1 EXCEPT !.M = r.M]

\* uuidv4(): an id no game has had; once the ids are used up, a step that
\* needs one is not taken
FreshIds == GameIds \ usedIds

FreshId == CHOOSE g \in (IF FreshIds = {} THEN GameIds ELSE FreshIds) : TRUE

\* the handler's part after findRandomMatch returned or suspended with r;
\* resumed: the call ran on after a database answer, so that the rest of the
\* handler follows with nothing in between
FindInstall(s, walletAddress, r, pend, resumed) ==
  /\ r.created => FreshIds # {} /\ ObjIds \ Referenced(games, pend) # {}
  /\ usedIds' = IF r.created THEN usedIds \cup {FreshId} ELSE usedIds
  /\ IF r.k # Null
     THEN Install(afterFind(Hs, r), Suspend(pend, FindCont(s, walletAddress, r)))
     ELSE IF ~(r.success /\ r.gameStarted)
     THEN Install(afterFind(Hs, r), pend)
     ELSE IF resumed
     THEN Install(findTail(afterFind(Hs, r), r.gameId, r.M.games[r.gameId]), pend)
     ELSE Install(afterFind(Hs, r),
                  Suspend(pend, Cont("findTail", s, r.gameId, r.M.games[r.gameId],
                                     walletAddress, "public", 0, Null)))

\* the least free object once the continuations in pend are the suspended ones
FreeObj(pend) ==
  LET free == ObjIds \ Referenced(games, pend)
      from == IF free = {} THEN ObjIds ELSE free
  IN CHOOSE x \in from : \A y \in from : x <= y

\* socket.on('find_random_match')
find_random_match(s, stakeAmount, currency, walletAddress) ==
  /\ Live(s)
  /\ UNCHANGED <<playerSockets, socketPlayers, closed, graceChecks, disc, discGame, crashed>>
  /\ FindInstall(s, walletAddress,
                 findRandomMatch(Mgr, FreeObj(pending), FreshId, Owner(s), s,
                                 stakeAmount, currency, walletAddress),
                 pending, FALSE)

\* findRandomMatch resumes after the await it was suspended at
findResume(M, o, gameId, c, hasPoints) ==
  CASE c.k = "findCheck" ->
         findCheckResume(M, o, gameId, c.playerId, c.socketId, c.wallet, hasPoints)
    [] c.k = "findJoin" ->
         findJoinResume(M, c.gameId, c.obj, c.playerId, c.socketId, c.wallet, hasPoints)
    [] c.k = "findPairCreate" ->
         findPairResume(M, o, gameId, c.queued, c.playerId, c.socketId,
                        c.stakeAmount, c.currency, c.wallet, hasPoints)
    [] c.k = "findPairJoin" ->
         findPairJoinResume(M, o, gameId, c.gameId, c.obj, c.playerId, c.socketId,
                            c.stakeAmount, c.currency, c.wallet, hasPoints, FALSE)
    [] c.k = "findCreate" ->
         findEnqueueResume(M, o, gameId, c.playerId, c.socketId, c.stakeAmount,
                           c.currency, c.wallet, hasPoints, FALSE)

FindKinds == {"findCheck", "findJoin", "findPairCreate", "findPairJoin", "findCreate"}

FindResume(c, hasPoints) ==
  /\ Idle
  /\ c \in pending /\ c.k \in FindKinds
  /\ UNCHANGED <<playerSockets, socketPlayers, closed, graceChecks, disc, discGame, crashed>>
  /\ FindInstall(c.socketId, c.wallet,
                 findSettled(findResume(Mgr, FreeObj(pending \ {c}), FreshId, c, hasPoints),
                             FreeObj(pending \ {c}), FreshId, c.playerId, c.socketId,
                             c.wallet),
                 Resumed(pending, c), TRUE)

\* the microtask at the head of the queue runs: the rest of a handler, or of
\* findRandomMatch, behind an await that did not wait for the database
HandlerTail(c) ==
  /\ ~crashed
  /\ c \in Tails(pending) /\ c.n = 1
  /\ UNCHANGED <<playerSockets, socketPlayers, closed, graceChecks, disc, discGame, crashed>>
  /\ LET rest == Resumed(pending, c)
     IN CASE c.k = "joinTail" ->
               /\ UNCHANGED usedIds
               /\ Install(joinTail(Hs, c.gameId, c.obj), rest)
          [] c.k = "createTail" ->
               /\ UNCHANGED usedIds
               /\ Install(createTail(Hs, c.gameId, c.obj), rest)
          [] c.k = "findTail" ->
               /\ UNCHANGED usedIds
               /\ Install(findTail(Hs, c.gameId, c.obj), rest)
          [] c.k = "findPaired" ->
               FindInstall(c.socketId, c.wallet,
                           findPairedResume(Mgr, FreeObj(rest), FreshId, c.gameId,
                                            c.playerId, c.socketId, c.stakeAmount,
                                            c.currency, c.wallet, FALSE),
                           rest, FALSE)

\* the setTimeout of join_game fires: startRoundTimer(gameId, io, 15)
StartTimerFires(gameId) ==
  /\ Idle
  /\ pendingStart[gameId] > 0
  /\ UNCHANGED <<usedIds, playerSockets, socketPlayers, closed, graceChecks, disc, discGame, crashed>>
  /\ Install(startRoundTimer([Hs EXCEPT !.pendingStart[gameId] = @ - 1], gameId), pending)

\* one run of the setInterval callback of startRoundTimer
TimerTick(gameId, random1, random2) ==
  /\ Idle
  /\ gameTimers[gameId] # NoTimer
  /\ UNCHANGED <<usedIds, playerSockets, socketPlayers, closed, graceChecks, disc, discGame, crashed>>
  /\ LET countdown == gameTimers[gameId] - 1
         currentGameState == getGame(Mgr, gameId)
     IN IF currentGameState.gameStatus \in {"absent", "finished"}
        THEN Install(clearTimer(Hs, gameId), pending)
        ELSE IF countdown <= 0
        THEN Install(handleTimeUp(clearTimer(Hs, gameId), gameId, random1, random2), pending)
        ELSE Install([Hs EXCEPT !.gameTimers[gameId] = countdown], pending)

\* socket.on('submit_move')
submit_move(s, move, dataGameId) ==
  /\ Live(s)
  /\ UNCHANGED <<usedIds, playerSockets, socketPlayers, closed, graceChecks, disc, discGame, crashed>>
  /\ LET r == submitMove(Mgr, Owner(s), move, dataGameId)
         H1 == [Hs EXCEPT !.M = r.M]
     IN IF r.success /\ r.roundComplete
        THEN Install(afterRound(clearTimer(H1, r.gameId), r.gameId, r.gameFinished), pending)
        ELSE Install(H1, pending)

\* socket.on('submit_rock')
submit_rock(s) ==
  /\ Live(s)
  /\ UNCHANGED <<usedIds, playerSockets, socketPlayers, closed, graceChecks, disc, discGame, crashed>>
  /\ Install([Hs EXCEPT !.M = submitMove(Mgr, Owner(s), "rock", Null).M], pending)

\* socket.on('submit_rock') for a packet that carries no payload: the handler
\* has no try/catch, and data.playerId throws a TypeError that leaves it
submit_rock_undefined(s) ==
  /\ Live(s)
  /\ crashed' = TRUE
  /\ UNCHANGED <<usedIds, playerSockets, socketPlayers, closed, graceChecks, disc, discGame>>
  /\ Install(Hs, pending)

\* leave_game from removePlayer on
leaveRemove(H, playerId) ==
  LET r == removePlayer(H.M, playerId)
  IN IF r.success THEN clearTimer([H EXCEPT !.M = r.M], r.gameId)
     ELSE [H EXCEPT !.M = r.M]

\* leave_game, the forfeit block: the opponent of the leaver in an active game
leaveOpponent(gameState, playerId) ==
  IF gameState.gameStatus # "playing" THEN Null
  ELSE IF gameState.player1.id = playerId THEN gameState.player2.id
  ELSE IF gameState.player2.id = playerId THEN gameState.player1.id
  ELSE Null

\* socket.on('leave_game')
leave_game(s, dataGameId) ==
  /\ Live(s)
  /\ UNCHANGED <<usedIds, playerSockets, socketPlayers, closed, graceChecks, disc, discGame, crashed>>
  /\ LET gameState == getGame(Mgr, dataGameId)
         opponent == leaveOpponent(gameState, Owner(s))
         forfeited == [gameState EXCEPT !.winner = opponent, !.gameStatus = "finished"]
     IN IF dataGameId # Null /\ opponent # Null
        THEN Install([clearTimer(Hs, dataGameId) EXCEPT
                        !.M = Mutate(Mgr, dataGameId, forfeited),
                        !.notified[dataGameId].abandonment = @ + 1],
                     Suspend(pending, Cont("leave", s, dataGameId, games[dataGameId],
                                           Null, Null, 0, Null)))
        ELSE Install(leaveRemove(Hs, Owner(s)), pending)

\* leave_game resumes after processGameAbandonmentCompletion
LeaveResume(c) ==
  /\ Idle
  /\ c \in pending /\ c.k = "leave"
  /\ UNCHANGED <<usedIds, playerSockets, socketPlayers, closed, graceChecks, disc, discGame, crashed>>
  /\ Install(leaveRemove(Hs, c.playerId), Resumed(pending, c))

\* socket.on('disconnect'): getGame is called with the game STATE that
\* getPlayerGame returns, which is never a key of the table
disconnect(s) ==
  /\ Idle
  /\ s \notin closed
  /\ closed' = closed \cup {s}
  /\ UNCHANGED <<usedIds, crashed>>
  /\ LET playerId == socketPlayers[s]
         \* "const gameId = gameManager.getPlayerGame(playerId)"
         gameId == IF playerId = Null THEN NoGame ELSE getPlayerGame(Mgr, playerId)
         game == getGameByState(Mgr, gameId)
     IN IF playerId = Null
        THEN UNCHANGED <<playerSockets, socketPlayers, graceChecks, disc, discGame>>
        ELSE /\ graceChecks' = IF gameId # NoGame /\ game.gameStatus = "playing"
                               THEN graceChecks \cup {playerId} ELSE graceChecks
             /\ playerSockets' = [playerSockets EXCEPT ![playerId] = Null]
             /\ socketPlayers' = [socketPlayers EXCEPT ![s] = Null]
             /\ disc' = [disc EXCEPT ![playerId] = "lost"]
             /\ discGame' = [discGame EXCEPT ![playerId] =
                               IF gameId.gameStatus = "playing"
                               THEN games[playerGames[playerId]] ELSE 0]
  /\ Install(Hs, pending)

\* five seconds after the disconnect of playerId: the deferred check, if one
\* was scheduled, runs now
GraceElapsed(playerId) ==
  /\ Idle
  /\ disc[playerId] = "lost"
  /\ disc' = [disc EXCEPT ![playerId] = "expired"]
  /\ graceChecks' = graceChecks \ {playerId}
  /\ crashed' = (playerId \in graceChecks /\ playerSockets[playerId] = Null)
  /\ UNCHANGED <<usedIds, playerSockets, socketPlayers, closed, discGame>>
  /\ Install(Hs, pending)

\* the setTimeout of handleGameFinished fires, 30 s after it was scheduled:
\* cleanupOldGames(0). The games that existed at the scheduling are older than
\* 0 ms; a game created since is older or was created in this millisecond
Sweep ==
  /\ Idle
  /\ cleanups # << >>
  /\ UNCHANGED <<usedIds, playerSockets, socketPlayers, closed, graceChecks, disc, discGame, crashed>>
  /\ \E older \in SUBSET GameIds :
       /\ \A g \in GameIds : games[g] \in Head(cleanups) => g \in older
       /\ Install([Hs EXCEPT !.M = cleanupOldGamesAged(Mgr, older),
                              !.cleanups = Tail(@)], pending)

\* a maintenance call gameManager.cleanupOldGames(maxAge) at a time when the
\* games of older are the ones created more than maxAge ago
cleanup_old_games(older) ==
  /\ Idle
  /\ UNCHANGED <<usedIds, playerSockets, socketPlayers, closed, graceChecks, disc, discGame, crashed>>
  /\ Install([Hs EXCEPT !.M = cleanupOldGamesAged(Mgr, older)], pending)

\* checkAndStartGame: both on-chain flags are set; the entry is dropped and
\* the first round timer of the game, if it is in the table, is scheduled
checkAndStartGame(H, gameId) ==
  LET status == H.onchainStatus[gameId]
  IN IF ~(status.has /\ status.player1 /\ status.player2) THEN H
     ELSE IF getGame(H.M, gameId).gameStatus = "absent"
     THEN [H EXCEPT !.onchainStatus[gameId] = NoStatus]
     ELSE [H EXCEPT !.onchainStatus[gameId] = NoStatus,
                    !.pendingStart[gameId] = @ + 1]

\* handleOnchainGameCreated
handleOnchainGameCreated(H, gameId) ==
  IF H.onchainStatus[gameId].has /\ ~H.onchainStatus[gameId].player1
  THEN checkAndStartGame([H EXCEPT !.onchainStatus[gameId].player1 = TRUE], gameId)
  ELSE H

\* handleOnchainGameJoined
handleOnchainGameJoined(H, gameId) ==
  IF H.onchainStatus[gameId].has /\ ~H.onchainStatus[gameId].player2
  THEN checkAndStartGame([H EXCEPT !.onchainStatus[gameId].player2 = TRUE], gameId)
  ELSE H

\* socket.on('onchain_game_created')
onchain_game_created(s, gameId) ==
  /\ Live(s)
  /\ UNCHANGED <<usedIds, playerSockets, socketPlayers, closed, graceChecks, disc, discGame, crashed>>
  /\ Install(handleOnchainGameCreated(Hs, gameId), pending)

\* socket.on('onchain_game_joined')
onchain_game_joined(s, gameId) ==
  /\ Live(s)
  /\ UNCHANGED <<usedIds, playerSockets, socketPlayers, closed, graceChecks, disc, discGame, crashed>>
  /\ Install(handleOnchainGameJoined(Hs, gameId), pending)

\* POST /api/games/onchain/created
post_onchain_created(gameId) ==
  /\ Idle
  /\ UNCHANGED <<usedIds, playerSockets, socketPlayers, closed, graceChecks, disc, discGame, crashed>>
  /\ Install(handleOnchainGameCreated(Hs, gameId), pending)

\* POST /api/games/onchain/joined
post_onchain_joined(gameId) ==
  /\ Idle
  /\ UNCHANGED <<usedIds, playerSockets, socketPlayers, closed, graceChecks, disc, discGame, crashed>>
  /\ Install(handleOnchainGameJoined(Hs, gameId), pending)

\* POST /api/games/create: gameManager.createGame(gameType, stakeAmount,
\* currency, playerId, null), under a new id and with no slot taken
post_create(gameType, stakeAmount, currency) ==
  /\ Idle
  /\ UNCHANGED <<playerSockets, socketPlayers, closed, graceChecks, disc, discGame, crashed>>
  /\ IF createGameError(stakeAmount, currency) # Null
     THEN UNCHANGED usedIds /\ Install(Hs, pending)
     ELSE /\ FreshIds # {}
          /\ FreeObjs # {}
          /\ usedIds' = usedIds \cup {FreshId}
          /\ Install([Hs EXCEPT !.M = createGameCommit(Mgr, NewObj, gameType,
                        stakeAmount, currency, Null, Null, Null, FreshId).M,
                                !.notified[FreshId] = NoNotice], pending)

\* POST /api/games/:gameId/join: gameManager.joinGame(gameId, playerId, null)
post_join(gameId, playerId) ==
  /\ Idle
  /\ UNCHANGED <<usedIds, playerSockets, socketPlayers, closed, graceChecks, disc, discGame, crashed>>
  /\ IF joinGameError(Mgr, gameId) # Null
     THEN Install(Hs, pending)
     ELSE Install([Hs EXCEPT !.M = joinGameCommit(Mgr, gameId, games[gameId], playerId,
                                                  Null, Null, TRUE).M], pending)

\* DELETE /api/games/:gameId
deleteGame(M, gameId, playerId) ==
  LET gameState == getGame(M, gameId)
      gone(p) == p = gameState.player1.id \/ p = gameState.player2.id
  IN IF gameState.gameStatus = "absent" THEN M
     ELSE IF gameState.player1.id # playerId THEN M
     ELSE IF gameState.gameStatus = "playing" THEN M
     ELSE [M EXCEPT
             !.playerGames = [p \in Players |-> IF gone(p) THEN Null ELSE @[p]],
             !.games[gameId] = 0,
             !.gameOrder = WithoutKeys(@, {gameId})]

delete_game(gameId, playerId) ==
  /\ Idle
  /\ UNCHANGED <<usedIds, playerSockets, socketPlayers, closed, graceChecks, disc, discGame, crashed>>
  /\ Install([Hs EXCEPT !.M = deleteGame(Mgr, gameId, playerId)], pending)

(***************************************************************************)
(* Specifications                                                          *)
(*                                                                         *)
(* Each specification starts from the state after construction and lets a  *)
(* set of clients send a set of messages; they differ in the clients and   *)
(* in the message arguments.                                               *)
(***************************************************************************)
Booleans == {TRUE, FALSE}

\* the interval callback; Math.random() matters only when the countdown ends
Tick(g, moves) ==
  \/ gameTimers[g] # 1 /\ TimerTick(g, "rock", "paper")
  \/ gameTimers[g] = 1 /\ \E pair \in shuffledMoves(moves) : TimerTick(g, pair[1], pair[2])

(* ---- SpecLobby: two game ids, three clients, no moves: p1 and p2 ---- *)
(* ---- create, p3 joins and leaves                                  ---- *)
\* p1 creates with a wallet address (balance check), p2 without
LobbyCreate == \E s \in {"s1", "s2"}, g \in GameIds :
  create_game(s, "public", PointsStake, "points", IF s = "s1" THEN WalletOf("p1") ELSE Null, g)
LobbyCreateResume == \E c \in pending, hasPoints \in Booleans : CreateResume(c, hasPoints)
LobbyJoin == \E g \in GameIds : join_game("s3", g, Null)
LobbyLeave == \E g \in {Null, "g1"} : leave_game("s3", g)
LobbyLeaveResume == \E c \in pending : LeaveResume(c)
LobbyTail == \E c \in pending : HandlerTail(c)

NextLobby ==
  \/ LobbyCreate
  \/ LobbyCreateResume
  \/ LobbyJoin
  \/ LobbyLeave
  \/ LobbyLeaveResume
  \/ LobbyTail

SpecLobby == Init /\ [][NextLobby]_vars

(* ---- SpecPlay: one game of p1 and p2, moves and round timers ---- *)
PlayCreate == "g1" \notin usedIds /\ create_game("s1", "public", PointsStake, "points", Null, "g1")
PlayJoin == join_game("s2", "g1", Null)
PlayTail == \E c \in pending : HandlerTail(c)
PlayStart == StartTimerFires("g1")
PlayBound ==
  \A o \in ObjIds : objs'[o].gameStatus # "absent" => Len(objs'[o].moveHistory) <= MaxPlayHistory
PlayTick == Tick("g1", VALID_MOVES) /\ PlayBound
PlaySubmit == \E s \in {"s1", "s2"}, m \in VALID_MOVES \cup {"lizard"} :
  submit_move(s, m, "g1") /\ PlayBound
PlayRock == \E s \in {"s1", "s2"} : submit_rock(s) /\ PlayBound

NextPlay ==
  \/ PlayCreate
  \/ PlayJoin
  \/ PlayTail
  \/ PlayStart
  \/ PlayTick
  \/ PlaySubmit
  \/ PlayRock

SpecPlay == Init /\ [][NextPlay]_vars

(* ---- Spec: one game; p1 creates, p2 joins, p3 joins through a balance ---- *)
(* ---- check; moves, timers, leaves of p1 and p2, and the sweep        ---- *)
\* the moves p2 and p3 send
MainMoves == {"rock", "scissors"}

MainCreate == "g1" \notin usedIds /\ create_game("s1", "public", PointsStake, "points", Null, "g1")
\* p3 waits for the answer to one join before it sends the next
MainJoin ==
  \/ join_game("s2", "g1", Null)
  \/ (\A c \in pending : c.k # "join") /\ join_game("s3", "g1", WalletOf("p3"))
MainJoinResume == \E c \in pending, hasPoints \in Booleans : JoinResume(c, hasPoints)
MainTail == \E c \in pending : HandlerTail(c)
MainStart == StartTimerFires("g1")
\* the server draws the moves of an expired round from all three
MainTick == Tick("g1", VALID_MOVES)
\* p1 plays rock; p2 and p3 play rock or scissors
MainSubmit ==
  \/ submit_move("s1", "rock", "g1")
  \/ \E s \in {"s2", "s3"}, m \in MainMoves : submit_move(s, m, "g1")
MainLeave == \E s \in {"s1", "s2"} : leave_game(s, Null)
MainSweep == Sweep

Next ==
  \/ MainCreate
  \/ MainJoin
  \/ MainJoinResume
  \/ MainTail
  \/ MainStart
  \/ MainTick
  \/ MainSubmit
  \/ MainLeave
  \/ MainSweep

Spec == Init /\ [][Next]_vars

(* ---- SpecDisconnect: p1 and p2 in one game, transport loss and return ---- *)
DiscCreate == "g1" \notin usedIds /\ create_game("s1", "private", PointsStake, "points", Null, "g1")
DiscJoin == \E s \in {"s2", "s1b"} : join_game(s, "g1", Null)
DiscTail == \E c \in pending : HandlerTail(c)
DiscDisconnect == \E s \in {"s1", "s2", "s1b"} : disconnect(s)
DiscGrace == \E p \in Players : GraceElapsed(p)
\* p1 sends rock and p2 scissors; the moves of an expired round are the
\* server's draw
DiscSubmit ==
  \E s \in {"s1", "s2", "s1b"} :
    submit_move(s, IF s = "s2" THEN "scissors" ELSE "rock", "g1")
DiscStart == StartTimerFires("g1")
DiscTick == Tick("g1", VALID_MOVES)

NextDisconnect ==
  \/ DiscCreate
  \/ DiscJoin
  \/ DiscTail
  \/ DiscDisconnect
  \/ DiscGrace
  \/ DiscSubmit
  \/ DiscStart
  \/ DiscTick

SpecDisconnect == Init /\ [][NextDisconnect]_vars

(* ---- SpecGrace: p1 and p2 in one game whose rounds the timer plays; ---- *)
(* ---- sessions are lost, p1 returns on a second one, p2 leaves      ---- *)
GraceCreate == "g1" \notin usedIds /\ create_game("s1", "private", PointsStake, "points", Null, "g1")
GraceJoin == \E s \in {"s2", "s1b"} : join_game(s, "g1", Null)
GraceTail == \E c \in pending : HandlerTail(c)
GraceStart == StartTimerFires("g1")
GraceTick == Tick("g1", VALID_MOVES) /\ PlayBound
GraceLeave == leave_game("s2", Null)
GraceDisconnect == \E s \in {"s1", "s2", "s1b"} : disconnect(s)
GraceTime == \E p \in Players : GraceElapsed(p)

NextGrace ==
  \/ GraceCreate
  \/ GraceJoin
  \/ GraceTail
  \/ GraceStart
  \/ GraceTick
  \/ GraceLeave
  \/ GraceDisconnect
  \/ GraceTime

SpecGrace == Init /\ [][NextGrace]_vars

(* ---- SpecSettle: p1 and p2 play one game to its end, by moves they ---- *)
(* ---- send and by moves the round timer gives them; p3 opens a     ---- *)
(* ---- second game that stays waiting; p1 and p2 leave              ---- *)
SettleBound ==
  \A o \in ObjIds :
    objs'[o].gameStatus # "absent" => Len(objs'[o].moveHistory) <= MaxSettleHistory
SettleCreate ==
  \/ "g1" \notin usedIds /\ create_game("s1", "public", PointsStake, "points", Null, "g1")
  \/ "g2" \notin usedIds /\ create_game("s3", "public", PointsStake, "points", Null, "g2")
SettleJoin == join_game("s2", "g1", Null)
SettleTail == \E c \in pending : HandlerTail(c)
SettleStart == \E g \in GameIds : StartTimerFires(g)
SettleTick == \E g \in GameIds : Tick(g, VALID_MOVES) /\ SettleBound
\* p1 sends rock, p2 rock or scissors; paper is given by the timer only
SettleSubmit ==
  \/ submit_move("s1", "rock", "g1") /\ SettleBound
  \/ \E m \in MainMoves : submit_move("s2", m, "g1") /\ SettleBound
SettleLeave == \E s \in {"s1", "s2"} : leave_game(s, Null)

NextSettle ==
  \/ SettleCreate
  \/ SettleJoin
  \/ SettleTail
  \/ SettleStart
  \/ SettleTick
  \/ SettleSubmit
  \/ SettleLeave

SpecSettle == Init /\ [][NextSettle]_vars

(* ---- SpecScenario: P1 creates a points game, P2 joins, both submit ---- *)
ScenCreate == "g1" \notin usedIds /\ create_game("s1", "private", PointsStake, "points", Null, "g1")
ScenJoin == join_game("s2", "g1", Null)
ScenTail == \E c \in pending : HandlerTail(c)
ScenSubmit == \E s \in {"s1", "s2"}, m \in VALID_MOVES : submit_move(s, m, Null)
ScenRock == \E s \in {"s1", "s2"} : submit_rock(s)

NextScenario ==
  \/ ScenCreate
  \/ ScenJoin
  \/ ScenTail
  \/ ScenSubmit
  \/ ScenRock

SpecScenario == Init /\ [][NextScenario]_vars

\* Matchmaking: three clients look for random matches with points (p3 gives an
\* account, so its balance is checked and it plays for SOL when the check
\* fails); p1 joins the first game by its id and leaves.
MatchAsks == {<<"points", 0>>}

MatchFind ==
  \E s \in {"s1", "s2", "s3"}, a \in MatchAsks :
    find_random_match(s, a[2], a[1], IF s = "s3" THEN WalletOf("p3") ELSE Null)

MatchFindResume == \E c \in pending, hasPoints \in Booleans : FindResume(c, hasPoints)

MatchJoin == join_game("s1", "g1", Null)

MatchLeave == leave_game("s1", Null)

MatchTail == \E c \in pending : HandlerTail(c)

NextMatch == MatchFind \/ MatchFindResume \/ MatchJoin \/ MatchTail \/ MatchLeave

SpecMatch == Init /\ [][NextMatch]_vars

\* Game creation with every kind of stake: two clients create games with a
\* valid or invalid currency and stake (p1 gives an account, so its balance
\* is checked), a third asks for a random match with an empty SOL stake (a
\* ticket and no game), and all leave.
FormAsks == {<<"points", PointsStake>>, <<"points", 50>>, <<"sol", SolFallbackStake>>,
             <<"sol", 0>>, <<"gold", 1>>}

\* p1 waits for the answer to one create before it sends the next
FormCreate ==
  \E s \in {"s1", "s2"}, g \in GameIds, a \in FormAsks :
    /\ s = "s1" => \A c \in pending : c.k # "create"
    /\ create_game(s, "public", a[2], a[1], IF s = "s1" THEN WalletOf("p1") ELSE Null, g)

FormCreateResume == \E c \in pending, hasPoints \in Booleans : CreateResume(c, hasPoints)

FormFind == find_random_match("s3", 0, "sol", Null)

FormLeave == \E s \in {"s1", "s2", "s3"} : leave_game(s, Null)

NextForm == FormCreate \/ FormCreateResume \/ FormFind \/ FormLeave

SpecForm == Init /\ [][NextForm]_vars

\* Move targets: p1 creates games under fresh ids, p2 joins them, p1 leaves,
\* and both submit a valid or an invalid move with and without a game id, so
\* that p1 sits in games the map does not send p1 to.
TargetMoves == {"rock", "lizard"}

TargetCreate ==
  \E g \in GameIds :
    g \notin usedIds /\ create_game("s1", "public", PointsStake, "points", Null, g)

TargetJoin == \E g \in GameIds : join_game("s2", g, Null)

TargetLeave == leave_game("s1", Null)

TargetSubmit ==
  \E s \in {"s1", "s2"}, m \in TargetMoves, g \in GameIds \cup {Null} :
    submit_move(s, m, g) /\ PlayBound

TargetTail == \E c \in pending : HandlerTail(c)

NextTarget == TargetCreate \/ TargetJoin \/ TargetTail \/ TargetLeave \/ TargetSubmit

SpecTarget == Init /\ [][NextTarget]_vars

\* Maintenance: two clients create games under ids of their choice, used
\* before or not, a third joins them, all three leave, and cleanupOldGames
\* is called with every maxAge: any set of games may be the ones older than it.
MaintCreate ==
  \E s \in {"s1", "s2"}, g \in GameIds :
    create_game(s, "public", PointsStake, "points", Null, g)

MaintJoin == \E g \in GameIds : join_game("s3", g, Null)

MaintLeave == \E s \in {"s1", "s2", "s3"} : leave_game(s, Null)

MaintSweep == \E older \in SUBSET GameIds : cleanup_old_games(older)

MaintTail == \E c \in pending : HandlerTail(c)

NextMaintain == MaintCreate \/ MaintJoin \/ MaintTail \/ MaintLeave \/ MaintSweep

SpecMaintain == Init /\ [][NextMaintain]_vars

\* Two games side by side: p1 creates g1 and then g2 under fresh ids (and stays
\* in the slot of the first), p2 joins the first and p3 the second; p1 and p3
\* send rock with and without a game id and submit_rock with and without a
\* payload, the round timers of both games run, and p3 leaves.
IsoBound ==
  \A o \in ObjIds :
    objs'[o].gameStatus # "absent" => Len(objs'[o].moveHistory) <= MaxIsoHistory

IsoCreate ==
  \/ "g1" \notin usedIds /\ create_game("s1", "public", PointsStake, "points", Null, "g1")
  \/ /\ "g1" \in usedIds
     /\ "g2" \notin usedIds
     /\ create_game("s1", "public", PointsStake, "points", Null, "g2")

IsoJoin == join_game("s2", "g1", Null) \/ join_game("s3", "g2", Null)

IsoTail == \E c \in pending : HandlerTail(c)

IsoStart == \E g \in GameIds : StartTimerFires(g)

IsoTick == \E g \in GameIds : Tick(g, VALID_MOVES) /\ IsoBound

IsoSubmit ==
  \E s \in {"s1", "s3"}, g \in {"g1", Null} :
    submit_move(s, "rock", g) /\ IsoBound

IsoRock ==
  \E s \in {"s1", "s3"} :
    \/ submit_rock(s) /\ IsoBound
    \/ submit_rock_undefined(s)

IsoLeave == leave_game("s3", Null)

NextIsolate ==
  \/ IsoCreate
  \/ IsoJoin
  \/ IsoTail
  \/ IsoStart
  \/ IsoTick
  \/ IsoSubmit
  \/ IsoRock
  \/ IsoLeave

SpecIsolate == Init /\ [][NextIsolate]_vars

\* Requests and on-chain confirmations: p1 creates a private SOL game, p2
\* joins it through its socket, games are created, joined and deleted through
\* the HTTP routes, the on-chain events of the SOL game arrive from the
\* sockets and through the HTTP fallback, and p2 and p3 ask for a random match.
RoutesCreate ==
  "g1" \notin usedIds /\ create_game("s1", "private", SolFallbackStake, "sol", Null, "g1")

RoutesJoin == \E g \in GameIds : join_game("s2", g, Null)

RoutesTail == \E c \in pending : HandlerTail(c)

RoutesOnchainCreated == \E s \in {"s1", "s2"} : onchain_game_created(s, "g1")

RoutesOnchainJoined == \E s \in {"s1", "s2"} : onchain_game_joined(s, "g1")

RoutesPostOnchainCreated == post_onchain_created("g1")

RoutesPostOnchainJoined == post_onchain_joined("g1")

RoutesPostCreate ==
  \E a \in {<<"points", PointsStake>>, <<"points", 0>>} : post_create("public", a[2], a[1])

RoutesPostJoin == \E g \in GameIds, p \in {"p2", "p3"} : post_join(g, p)

RoutesDelete == \E g \in GameIds, p \in {"p1", Null} : delete_game(g, p)

RoutesStart == \E g \in GameIds : StartTimerFires(g)

RoutesLeave == leave_game("s2", Null)

RoutesFind == \E s \in {"s2", "s3"} : find_random_match(s, 0, "points", Null)

NextRoutes ==
  \/ RoutesCreate
  \/ RoutesJoin
  \/ RoutesTail
  \/ RoutesOnchainCreated
  \/ RoutesOnchainJoined
  \/ RoutesPostOnchainCreated
  \/ RoutesPostOnchainJoined
  \/ RoutesPostCreate
  \/ RoutesPostJoin
  \/ RoutesDelete
  \/ RoutesStart
  \/ RoutesLeave
  \/ RoutesFind

SpecRoutes == Init /\ [][NextRoutes]_vars

(***************************************************************************)
(* Properties                                                              *)
(***************************************************************************)
LiveObjs == {o \in ObjIds : objs[o].gameStatus # "absent"}

Slots == {"player1", "player2"}

Slot(gameState, k) == IF k = "player1" THEN gameState.player1 ELSE gameState.player2

Rank(gameStatus) ==
  CASE gameStatus = "waiting_for_player" -> 0
    [] gameStatus = "playing" -> 1
    [] gameStatus = "finished" -> 2

\* C1: the status of a match only moves waiting_for_player -> playing ->
\* finished: in no step does the status of a match that exists before and
\* after the step move backward.
C1_StatusNeverRegresses ==
  [][\A o \in ObjIds :
       (objs[o].gameStatus # "absent" /\ objs'[o].gameStatus # "absent")
         => Rank(objs'[o].gameStatus) >= Rank(objs[o].gameStatus)]_vars

OtherSlot(k) == IF k = "player1" THEN "player2" ELSE "player1"

SlotOf(gameState, playerId) ==
  IF gameState.player1.id = playerId THEN "player1" ELSE "player2"

\* what one successful submitMove(playerId, move) does to the game it targets
SubmitResolvesIffOpponentMoved(playerId, move) ==
  LET r == submitMove(Mgr, playerId, move, Null)
      before == getGame(Mgr, r.gameId)
      after == getGame(r.M, r.gameId)
      own == SlotOf(before, playerId)
      resolved == Len(after.moveHistory) = Len(before.moveHistory) + 1
  IN r.success =>
       /\ Slot(after, own).currentMove = move
       /\ Slot(after, OtherSlot(own)).currentMove = Slot(before, OtherSlot(own)).currentMove
       /\ resolved <=> Slot(before, OtherSlot(own)).currentMove # Null
       /\ resolved <=> r.roundComplete
       /\ resolved =>
            /\ after.player1.currentMove # Null /\ after.player2.currentMove # Null
            /\ after.player1.wins + after.player2.wins
                 = before.player1.wins + before.player2.wins
                   + (IF after.moveHistory[Len(after.moveHistory)].winner = "draw" THEN 0 ELSE 1)
       /\ ~resolved =>
            /\ after.moveHistory = before.moveHistory
            /\ after.player1.wins = before.player1.wins
            /\ after.player2.wins = before.player2.wins

\* what processRoundDirectly(gameId), the resolution of the timer path, does
DirectResolvesOnlyWithBothMoves(gameId) ==
  LET r == processRoundDirectly(Mgr, gameId)
      before == getGame(Mgr, gameId)
      after == getGame(r.M, gameId)
  IN /\ r.success => /\ before.player1.currentMove # Null
                     /\ before.player2.currentMove # Null
                     /\ after.player1.currentMove = before.player1.currentMove
                     /\ after.player2.currentMove = before.player2.currentMove
                     /\ Len(after.moveHistory) = Len(before.moveHistory) + 1
     /\ ~r.success => r.M = Mgr

\* C2: a round resolves (history entry appended, win counts updated) only in
\* a submitMove or processRoundDirectly after which both slots hold a move; a
\* submitMove by a player whose slot already holds a move overwrites it, and
\* the round resolves in that same call iff the opponent's slot holds a move.
\* In every step of the server, an appended history entry carries two moves.
C2_ResolveIffBothMoved ==
  /\ [](/\ \A playerId \in Players, move \in VALID_MOVES :
              SubmitResolvesIffOpponentMoved(playerId, move)
        /\ \A gameId \in GameIds : DirectResolvesOnlyWithBothMoves(gameId))
  /\ [][\A o \in ObjIds :
          (objs[o].gameStatus # "absent" /\ objs'[o].gameStatus # "absent"
             /\ objs'[o].moveHistory # objs[o].moveHistory)
            => /\ Len(objs'[o].moveHistory) = Len(objs[o].moveHistory) + 1
               /\ objs'[o].moveHistory[Len(objs'[o].moveHistory)].player1Move \in VALID_MOVES
               /\ objs'[o].moveHistory[Len(objs'[o].moveHistory)].player2Move \in VALID_MOVES]_vars

\* a playing game in which a round was resolved and both slots still hold
\* their moves: the next submitMove of either player overwrites and resolves
C2_Witness ==
  \E o \in ObjIds :
    /\ objs[o].gameStatus = "playing"
    /\ objs[o].player1.currentMove # Null
    /\ objs[o].player2.currentMove # Null
    /\ Len(objs[o].moveHistory) >= 2

\* the step appends a history entry to the game object o
Resolves(o) ==
  /\ objs[o].gameStatus # "absent" /\ objs'[o].gameStatus # "absent"
  /\ Len(objs'[o].moveHistory) = Len(objs[o].moveHistory) + 1

RaisesToWinningScore(o, k) ==
  /\ Slot(objs[o], k).wins < WINNING_SCORE
  /\ Slot(objs'[o], k).wins = WINNING_SCORE

\* C3: a round resolution sets the match to finished exactly when it raises a
\* slot's win count to 3, and then the winner is the player of that slot; a
\* resolution after which both win counts are below 3 leaves the match
\* playing with no winner.
C3_FinishExactlyAtThree ==
  [][\A o \in ObjIds : Resolves(o) =>
       /\ objs'[o].gameStatus = "finished"
            <=> \E k \in Slots : RaisesToWinningScore(o, k)
       /\ \A k \in Slots : RaisesToWinningScore(o, k)
            => objs'[o].winner = Slot(objs'[o], k).id
       /\ (objs'[o].player1.wins < WINNING_SCORE /\ objs'[o].player2.wins < WINNING_SCORE)
            => (objs'[o].gameStatus = "playing" /\ objs'[o].winner = Null)]_vars

\* C4: in every reachable state each slot's win count is in {0,1,2,3}.
C4_WinsAtMostThree ==
  \A o \in LiveObjs, k \in Slots : Slot(objs[o], k).wins \in 0..WINNING_SCORE

\* C5: settlement processing of a match, guarded by the processed flag, is
\* started at most once per match, on the submit path and on the timer path
\* and in every interleaving of the two; it is started only with the flag
\* set, the completion call it makes is made at most once as well, and a
\* further run of handleGameFinished for the match, in whatever state, does
\* not start it again.
C5_SettlementStartedAtMostOnce ==
  \A g \in GameIds :
    /\ notified[g].started <= 1
    /\ notified[g].completion <= notified[g].started
    /\ (notified[g].started = 1 /\ games[g] # 0) => getGame(Mgr, g).processed
    /\ games[g] # 0 => handleGameFinished(Hs, g).notified[g].started <= 1

\* a match whose final round the timer completed (no client sends paper) and
\* whose settlement was started once
C5_Witness ==
  \E g \in GameIds :
    LET gameState == getGame(Mgr, g)
    IN /\ notified[g].started = 1
       /\ gameState.gameStatus = "finished"
       /\ gameState.processed
       /\ Len(gameState.moveHistory) = WINNING_SCORE
       /\ "paper" \in {gameState.moveHistory[WINNING_SCORE].player1Move,
                       gameState.moveHistory[WINNING_SCORE].player2Move}

\* calls that hand a match to settlement: the guarded block of
\* handleGameFinished and processGameAbandonmentCompletion of leave_game
SettlementNotices(g) == notified[g].started + notified[g].abandonment

\* C6: every match that is finished with a winner, however it got there, has
\* had the settlement collaborator notified exactly once (no handler is
\* suspended in between).
C6_FinishedNotifiedOnce ==
  \A g \in GameIds :
    (/\ getGame(Mgr, g).gameStatus = "finished"
     /\ getGame(Mgr, g).winner # Null
     /\ pending = {})
      => SettlementNotices(g) = 1

\* C7: no player id occupies a slot in two different matches of the table
\* that are both not finished.
C7_OneOpenMatchPerPlayer ==
  \A p \in Players, g \in GameIds, h \in GameIds :
    (/\ g # h
     /\ games[g] # 0 /\ games[h] # 0
     /\ getGame(Mgr, g).gameStatus # "finished"
     /\ getGame(Mgr, h).gameStatus # "finished")
      => ~(HasPlayer(getGame(Mgr, g), p) /\ HasPlayer(getGame(Mgr, h), p))

\* the step is the moment five seconds after the disconnect of p, and p has
\* not associated a session again
GraceCheckTime(p) ==
  /\ disc[p] = "lost" /\ disc'[p] = "expired"
  /\ playerSockets[p] = Null

Opponent(gameState, p) ==
  IF gameState.player1.id = p THEN gameState.player2.id ELSE gameState.player1.id

\* C8: when a player of a playing match has lost the transport session and
\* has not re-associated one at the time of the grace check, five seconds
\* later, the match becomes finished with the opponent as winner.
C8_DisconnectForfeits ==
  [][\A p \in Players, o \in ObjIds :
       (/\ GraceCheckTime(p)
        /\ objs[o].gameStatus = "playing"
        /\ HasPlayer(objs[o], p))
         => /\ objs'[o].gameStatus = "finished"
            /\ objs'[o].winner = Opponent(objs[o], p)]_vars

\* entries i, i+1, i+2 of the history are won by the same slot
ThreeInARow(gameState, i, w) ==
  /\ i + 2 <= Len(gameState.moveHistory)
  /\ \A j \in i..(i + 2) : gameState.moveHistory[j].winner = w

\* the join that fills slot player2 of a game created by P1
FillingJoin(o) ==
  /\ objs[o].gameStatus = "waiting_for_player"
  /\ objs[o].player1.id # Null /\ objs[o].player2.id = Null
  /\ objs'[o].gameStatus # "absent" /\ objs'[o].player2.id # Null

\* C9: after P1 creates a points match with stake 100 and P2 joins it, the
\* match is playing with round 1; and when one player has won three
\* consecutive round resolutions through submitMove, after the third that
\* player's win count is 3, the status is finished and the winner is that
\* player.
C9_ThreeWinsFinish ==
  /\ [](\A o \in LiveObjs, w \in Slots, i \in 1..MaxHistory :
          ThreeInARow(objs[o], i, w)
            => /\ i + 2 = Len(objs[o].moveHistory)
               /\ Slot(objs[o], w).wins = WINNING_SCORE
               /\ objs[o].gameStatus = "finished"
               /\ objs[o].winner = Slot(objs[o], w).id)
  /\ [][\A o \in ObjIds : FillingJoin(o)
          => /\ objs'[o].gameStatus = "playing"
             /\ objs'[o].currentRound = 1
             /\ objs'[o].currency = "points" /\ objs'[o].stakeAmount = PointsStake
             /\ objs'[o].player1.id = "p1" /\ objs'[o].player2.id = "p2"]_vars

\* P1 = rock, P2 = scissors three times: P1 has 3 wins and is the winner
C9_Witness ==
  \E o \in LiveObjs :
    /\ Len(objs[o].moveHistory) = 3
    /\ \A j \in 1..3 : /\ objs[o].moveHistory[j].player1Move = "rock"
                       /\ objs[o].moveHistory[j].player2Move = "scissors"
    /\ objs[o].player1.wins = 3
    /\ objs[o].gameStatus = "finished"
    /\ objs[o].winner = "p1"

\* all history entries of all games
Entries ==
  UNION {{objs[o].moveHistory[j] : j \in 1..Len(objs[o].moveHistory)} : o \in LiveObjs}

\* C10: determineWinner over the 9 pairs of valid moves returns draw iff the
\* moves are equal, player1 for (rock,scissors), (scissors,paper) and
\* (paper,rock), and player1 for (a,b) iff player2 for (b,a); the winners
\* recorded for the rounds played obey the same table.
C10_DetermineWinner ==
  /\ \A a \in VALID_MOVES, b \in VALID_MOVES :
       /\ determineWinner(a, b) \in {"draw", "player1", "player2"}
       /\ determineWinner(a, b) = "draw" <=> a = b
       /\ determineWinner(a, b) = "player1" <=> determineWinner(b, a) = "player2"
  /\ determineWinner("rock", "scissors") = "player1"
  /\ determineWinner("scissors", "paper") = "player1"
  /\ determineWinner("paper", "rock") = "player1"
  /\ \A e \in Entries :
       /\ e.winner = "draw" <=> e.player1Move = e.player2Move
       /\ <<e.player1Move, e.player2Move>>
            \in {<<"rock", "scissors">>, <<"scissors", "paper">>, <<"paper", "rock">>}
            => e.winner = "player1"
       /\ \A f \in Entries :
            (f.player1Move = e.player2Move /\ f.player2Move = e.player1Move)
              => (e.winner = "player1" <=> f.winner = "player2")

\* rounds were played with a pair of moves, with the swapped pair and with
\* equal moves
C10_Witness ==
  \E e \in Entries, f \in Entries, d \in Entries :
    /\ e.player1Move = "paper" /\ e.player2Move = "rock" /\ e.winner = "player1"
    /\ f.player1Move = "rock" /\ f.player2Move = "paper" /\ f.winner = "player2"
    /\ d.player1Move = d.player2Move /\ d.winner = "draw"

\* C11: no match holds the same player in both slots: neither a random match
\* request (which skips the waiting games whose first slot is the requester
\* and the requester's own ticket) nor a join by a player who is already in
\* the match (which re-uses that player's slot) puts one player in both.
C11_NoPlayerInBothSlots ==
  \A o \in LiveObjs :
    objs[o].player1.id # Null => objs[o].player1.id # objs[o].player2.id

\* a player has joined the own placeholder game of a random match request by
\* its id and is still alone in it, with the ticket in the queue
C11_Witness ==
  \E p \in Players, g \in GameIds :
    /\ playerSockets[p] # Null
    /\ games[g] # 0
    /\ getGame(Mgr, g).gameType = "public"
    /\ getGame(Mgr, g).gameStatus = "waiting_for_player"
    /\ getGame(Mgr, g).player1.id = p
    /\ getGame(Mgr, g).player2.id = Null
    /\ QueueIndex(publicQueue, p) # 0

\* C12: the matchmaking queue never holds two tickets of the same player: a
\* random match request by a player who has a ticket replaces the ticket.
C12_OneTicketPerPlayer ==
  \A i \in 1..Len(publicQueue), j \in 1..Len(publicQueue) :
    i # j => publicQueue[i].playerId # publicQueue[j].playerId

\* a player whose ticket stayed queued through a match (won by the opponent's
\* leave) has asked again: one ticket, and a new placeholder game
C12_Witness ==
  \E p \in Players, g \in GameIds, h \in GameIds :
    /\ g # h /\ games[g] # 0 /\ games[h] # 0
    /\ getGame(Mgr, g).gameStatus = "finished"
    /\ getGame(Mgr, g).winner = p
    /\ getGame(Mgr, h).gameStatus = "waiting_for_player"
    /\ getGame(Mgr, h).player1.id = p
    /\ QueueIndex(publicQueue, p) # 0

\* C13: a ticket exists only while its player is waiting: the queue holds no
\* ticket of a player who occupies a slot of a playing match, whether the
\* player was paired through the ticket or an opponent joined the player's
\* placeholder game.
C13_TicketOnlyWhileWaiting ==
  \A p \in Players :
    QueueIndex(publicQueue, p) # 0 =>
      \A g \in GameIds :
        getGame(Mgr, g).gameStatus = "playing" => ~HasPlayer(getGame(Mgr, g), p)

\* what handleTimeUp does to game g when the countdown ends with no move in
\* either slot, for every pair of moves the shuffle can assign
TimeUpWithNoMove(g) ==
  LET before == getGame(Mgr, g)
  IN \A pair \in shuffledMoves(VALID_MOVES) :
       LET after == getGame(handleTimeUp(clearTimer(Hs, g), g, pair[1], pair[2]).M, g)
           entry == after.moveHistory[Len(after.moveHistory)]
           gain1 == after.player1.wins - before.player1.wins
           gain2 == after.player2.wins - before.player2.wins
       IN /\ Len(after.moveHistory) = Len(before.moveHistory) + 1
          /\ entry.player1Move = pair[1] /\ entry.player2Move = pair[2]
          /\ entry.player1Move # entry.player2Move
          /\ entry.winner # "draw"
          /\ {gain1, gain2} = {0, 1}

LastSecond(g) == gameTimers[g] = 1 /\ getGame(Mgr, g).gameStatus = "playing"

\* C14: when the round timer of a playing match reaches zero and both slots
\* lack a move, the slots get two different moves, the round resolved in that
\* step is not a draw, and exactly one win count rises by one.
C14_DoubleTimeoutNeverDraw ==
  \A g \in GameIds :
    (/\ LastSecond(g)
     /\ getGame(Mgr, g).player1.currentMove = Null
     /\ getGame(Mgr, g).player2.currentMove = Null)
      => TimeUpWithNoMove(g)

\* the second round of a match is in its last second and nobody has moved
C14_Witness ==
  \E g \in GameIds :
    /\ LastSecond(g)
    /\ getGame(Mgr, g).player1.currentMove = Null
    /\ getGame(Mgr, g).player2.currentMove = Null
    /\ getGame(Mgr, g).currentRound = 2

\* what handleTimeUp does to game g when the countdown ends and only slot k
\* lacks a move, for every move Math.random() can select
TimeUpWithOneMove(g, k) ==
  LET before == getGame(Mgr, g)
  IN \A random1 \in VALID_MOVES, random2 \in VALID_MOVES :
       LET H == handleTimeUp(clearTimer(Hs, g), g, random1, random2)
           after == getGame(H.M, g)
           entry == after.moveHistory[Len(after.moveHistory)]
           given == IF k = "player1" THEN random1 ELSE random2
           move1 == IF k = "player1" THEN given ELSE before.player1.currentMove
           move2 == IF k = "player2" THEN given ELSE before.player2.currentMove
       IN /\ Len(after.moveHistory) = Len(before.moveHistory) + 1
          /\ entry.player1Move = move1 /\ entry.player2Move = move2
          /\ \/ after.gameStatus = "finished" /\ H.gameTimers[g] = NoTimer
             \/ /\ after.gameStatus = "playing"
                /\ after.currentRound = before.currentRound + 1
                /\ H.gameTimers[g] = RoundDuration

OnlyLacksMove(gameState, k) ==
  /\ Slot(gameState, k).currentMove = Null
  /\ Slot(gameState, OtherSlot(k)).currentMove # Null

\* C15: when the round timer of a playing match reaches zero and exactly one
\* slot lacks a move, that slot gets one of the three moves and the move of
\* the other slot is kept; the round resolves in the same step, and then the
\* match is finished or the round number advances and a new timer is armed.
C15_SingleTimeoutResolves ==
  \A g \in GameIds, k \in Slots :
    (LastSecond(g) /\ OnlyLacksMove(getGame(Mgr, g), k)) => TimeUpWithOneMove(g, k)

\* the countdown is in its last second, only the second slot has moved, and
\* that slot has two wins, so the round can end the match or lead to the next
\* round
C15_Witness ==
  \E g \in GameIds :
    /\ LastSecond(g)
    /\ OnlyLacksMove(getGame(Mgr, g), "player1")
    /\ getGame(Mgr, g).player2.wins = WINNING_SCORE - 1

\* the step puts a player into the empty second slot of the game held in o
FillsSecondSlot(o) ==
  /\ objs'[o].gameStatus # "absent"
  /\ objs'[o].player2.id # Null
  /\ objs[o].gameStatus = "absent" \/ objs[o].player2.id = Null

\* C16: a successful join that fills the second slot sets the status to
\* playing and the round to 1, and afterwards playerGames sends both slot
\* occupants to this game.
C16_FillingJoinStartsMatch ==
  [][\A o \in ObjIds :
       FillsSecondSlot(o) =>
         /\ objs'[o].gameStatus = "playing"
         /\ objs'[o].currentRound = 1
         /\ objs'[o].player1.id # Null
         /\ \E g \in GameIds :
              /\ games'[g] = o
              /\ playerGames'[objs'[o].player1.id] = g
              /\ playerGames'[objs'[o].player2.id] = g]_vars

\* a game in round 1 with both slots filled, no round resolved, and its first
\* timer scheduled by the join
C16_Witness ==
  \E g \in GameIds :
    /\ pendingStart[g] > 0
    /\ getGame(Mgr, g).gameStatus = "playing"
    /\ getGame(Mgr, g).currentRound = 1
    /\ getGame(Mgr, g).player1.id # Null
    /\ getGame(Mgr, g).player2.id # Null
    /\ getGame(Mgr, g).moveHistory = << >>

\* C17: joinGame fails on a missing, finished or playing match and leaves it
\* unchanged: in no step is a player written into a slot of a match that is
\* finished or playing when the slot is written.
C17_NoJoinAfterStart ==
  [][\A o \in ObjIds, k \in Slots :
       (/\ objs[o].gameStatus \in {"finished", "playing"}
        /\ objs'[o].gameStatus # "absent"
        /\ Slot(objs'[o], k).id # Slot(objs[o], k).id)
         => Slot(objs'[o], k).id = Null]_vars

ValidStake(stakeAmount, currency) ==
  \/ currency = "points" /\ stakeAmount = PointsStake
  \/ currency = "sol" /\ stakeAmount > 0

TablesUnchanged ==
  /\ objs' = objs /\ games' = games /\ gameOrder' = gameOrder
  /\ playerGames' = playerGames /\ publicQueue' = publicQueue

\* C18: createGame succeeds only for a points game with stake exactly 100
\* (and a passed balance check when an account is given) or a sol game with a
\* positive stake; with any other currency and stake, and with a failed
\* balance check, it leaves the game table, the player map and the queue
\* unchanged: every new game has such a stake, and no step that changes a
\* table is a create_game with another stake or a createGame resumed with a
\* failed balance check.
C18_CreateValidStakeOnly ==
  /\ [][\A o \in ObjIds :
          (objs[o].gameStatus = "absent" /\ objs'[o].gameStatus # "absent")
            => ValidStake(objs'[o].stakeAmount, objs'[o].currency)]_vars
  /\ [][\A s \in {"s1", "s2"}, g \in GameIds, a \in FormAsks :
          \A w \in {Null, WalletOf(Owner(s))} :
            (~ValidStake(a[2], a[1]) /\ ~(TablesUnchanged /\ pending' = pending))
              => ~create_game(s, "public", a[2], a[1], w, g)]_vars
  /\ [][~TablesUnchanged => \A c \in pending : ~CreateResume(c, FALSE)]_vars

\* a create_game was refused: its id is used and its client associated, and
\* there is neither a game nor a suspended createGame
C18_Witness ==
  /\ usedIds # {} /\ pending = {}
  /\ \A g \in GameIds : games[g] = 0
  /\ publicQueue = << >>
  /\ \E p \in Players : playerSockets[p] # Null

\* game g is in the table with the player of session s in its first slot, and
\* playerGames sends that player to g
CreatedFor(s, g) ==
  /\ games'[g] # 0
  /\ objs'[games'[g]].player1.id = Owner(s)
  /\ playerGames'[Owner(s)] = g

\* C19: after a successful createGame by a creator who is already in
\* playerGames the old entry is gone and playerGames sends the creator to the
\* new game; createGame never fails because the creator is already mapped: a
\* step that does not end with the creator mapped to the new game is neither
\* a create_game with a valid stake and no account nor a createGame resumed
\* with a passed balance check.
C19_CreateRemapsCreator ==
  [][\A s \in {"s1", "s2"}, g \in GameIds :
       ~CreatedFor(s, g) =>
         /\ \A a \in FormAsks :
              ValidStake(a[2], a[1]) => ~create_game(s, "public", a[2], a[1], Null, g)
         /\ \A c \in pending :
              (c.socketId = s /\ c.gameId = g) => ~CreateResume(c, TRUE)]_vars

\* a creator mapped to a second game while the first, still waiting, holds
\* the creator in its first slot
C19_Witness ==
  \E p \in Players, g \in GameIds, h \in GameIds :
    /\ g # h /\ games[g] # 0 /\ games[h] # 0
    /\ getGame(Mgr, g).gameStatus = "waiting_for_player"
    /\ getGame(Mgr, g).player1.id = p
    /\ getGame(Mgr, h).player1.id = p
    /\ playerGames[p] = h

\* the step has taken the player of session s out of the open game the player
\* was mapped to (held in object o): the slot is cleared, the game is
\* finished, and the opponent of a playing game has won
LeftOpenGame(s, o) ==
  /\ ~HasPlayer(objs'[o], Owner(s))
  /\ objs'[o].gameStatus = "finished"
  /\ objs[o].gameStatus = "playing" => objs'[o].winner = Opponent(objs[o], Owner(s))
  /\ playerGames'[Owner(s)] = Null \/ games'[playerGames'[Owner(s)]] # o

\* after the step the matching of the player of session s has gone on: the
\* player is in a slot of an open game the player is mapped to, or the
\* request waits for a balance check or behind the createGame for a ticket
MatchingContinues(s) ==
  \/ /\ playerGames'[Owner(s)] # Null
     /\ games'[playerGames'[Owner(s)]] # 0
     /\ HasPlayer(objs'[games'[playerGames'[Owner(s)]]], Owner(s))
     /\ objs'[games'[playerGames'[Owner(s)]]].gameStatus # "finished"
  \/ \E c \in pending' : c.k \in FindKinds \cup {"findPaired"} /\ c.socketId = s

\* C20: findRandomMatch by a player who is mapped to a game that is not
\* finished first performs the leave (slot cleared, map entry removed, the
\* opponent of a playing game wins by forfeit) and then goes on matching; it
\* never returns an error because the player is already in a game.
C20_FindLeavesFirst ==
  [][\A s \in {"s1", "s2", "s3"} :
       (/\ playerGames[Owner(s)] # Null
        /\ getGame(Mgr, playerGames[Owner(s)]).gameStatus \notin {"absent", "finished"}
        /\ find_random_match(s, 0, "points", IF s = "s3" THEN WalletOf("p3") ELSE Null))
         => /\ LeftOpenGame(s, games[playerGames[Owner(s)]])
            /\ MatchingContinues(s)]_vars

\* a player has left a playing game to the opponent and waits in a new
\* placeholder game with a ticket
C20_Witness ==
  \E p \in Players, q \in Players, g \in GameIds, h \in GameIds :
    /\ p # q /\ g # h /\ games[g] # 0 /\ games[h] # 0
    /\ getGame(Mgr, g).gameStatus = "finished"
    /\ getGame(Mgr, g).winner = q
    /\ HasPlayer(getGame(Mgr, g), q) /\ ~HasPlayer(getGame(Mgr, g), p)
    /\ getGame(Mgr, h).gameStatus = "waiting_for_player"
    /\ getGame(Mgr, h).player1.id = p
    /\ playerGames[p] = h
    /\ QueueIndex(publicQueue, p) # 0

\* the public games another player waits in with the given stake
WaitingFor(M, playerId, stakeAmount, currency) ==
  {g \in GameIds :
     /\ getGame(M, g).gameStatus = "waiting_for_player"
     /\ getGame(M, g).gameType = "public"
     /\ getGame(M, g).stakeAmount = stakeAmount
     /\ getGame(M, g).currency = currency
     /\ getGame(M, g).player1.id # playerId}

\* the tickets of other players with the given stake
TicketsFor(M, playerId, stakeAmount, currency) ==
  {i \in 1..Len(M.publicQueue) :
     /\ M.publicQueue[i].playerId # playerId
     /\ M.publicQueue[i].stakeAmount = stakeAmount
     /\ M.publicQueue[i].currency = currency}

\* the manager once findRandomMatch has taken the requester out of an open game
AfterAutoLeave(M, playerId) ==
  IF /\ M.playerGames[playerId] # Null
     /\ getPlayerGame(M, playerId).gameStatus \notin {"absent", "finished"}
  THEN removePlayer(M, playerId).M
  ELSE M

\* what findRandomMatch(playerId, s, 0, 'points', null) does in this state,
\* when no other packet of the client is handled before it returns, if the
\* only games it joins are those with another player in the first slot
FindFillsSecondSlotOrPairs(s) ==
  LET playerId == Owner(s)
      M == AfterAutoLeave(Mgr, playerId)
      waiting == {g \in WaitingFor(M, playerId, PointsStake, "points") :
                    getGame(M, g).player1.id # Null}
      tickets == TicketsFor(M, playerId, PointsStake, "points")
      r == findSettled(findRandomMatch(Mgr, FreeObj(pending), FreshId, playerId, s,
                                       0, "points", Null),
                       FreeObj(pending), FreshId, playerId, s, Null)
      after == getGame(r.M, r.gameId)
  IN IF waiting # {}
     THEN /\ r.success /\ ~r.created
          /\ r.gameId \in waiting
          /\ after.player2.id = playerId
          /\ after.player1.id = getGame(M, r.gameId).player1.id
          /\ after.gameStatus = "playing"
          /\ r.M.publicQueue = M.publicQueue
     ELSE (FreshIds # {} /\ FreeObjs # {}) =>
          IF tickets # {}
          THEN \E i \in tickets :
                 IF M.publicQueue[i].walletAddress # Null
                 THEN r.k = "findPairCreate" /\ r.queued = M.publicQueue[i]
                 ELSE /\ r.success /\ r.created /\ r.gameId = FreshId
                      /\ M.games[r.gameId] = 0
                      /\ after.gameStatus = "playing"
                      /\ after.player1.id = M.publicQueue[i].playerId
                      /\ after.player2.id = playerId
                      /\ QueueIndex(r.M.publicQueue, M.publicQueue[i].playerId) = 0
          ELSE /\ r.success /\ r.created /\ r.gameId = FreshId
               /\ M.games[r.gameId] = 0
               /\ after.gameStatus = "waiting_for_player"
               /\ after.gameType = "public"
               /\ after.player1.id = playerId /\ after.player2.id = Null
               /\ QueueIndex(r.M.publicQueue, playerId) # 0
               /\ Len(r.M.publicQueue) = Len(WithoutTickets(M.publicQueue, playerId)) + 1

\* what findRandomMatch(playerId, s, 0, 'points', null) does in this state,
\* when no other packet of the client is handled before it returns
FindFollowsSearchOrder(s) ==
  LET playerId == Owner(s)
      M == AfterAutoLeave(Mgr, playerId)
      waiting == WaitingFor(M, playerId, PointsStake, "points")
      tickets == TicketsFor(M, playerId, PointsStake, "points")
      r == findSettled(findRandomMatch(Mgr, FreeObj(pending), FreshId, playerId, s,
                                       0, "points", Null),
                       FreeObj(pending), FreshId, playerId, s, Null)
      after == getGame(r.M, r.gameId)
  IN IF waiting # {}
     THEN /\ r.success /\ ~r.created
          /\ r.gameId \in waiting
          /\ IF getGame(M, r.gameId).player1.id = Null
             THEN /\ after.player1.id = playerId
                  /\ after.player2.id = Null
                  /\ after.gameStatus = "waiting_for_player"
             ELSE /\ after.player2.id = playerId
                  /\ after.player1.id = getGame(M, r.gameId).player1.id
                  /\ after.gameStatus = "playing"
          /\ r.M.publicQueue = M.publicQueue
     ELSE (FreshIds # {} /\ FreeObjs # {}) =>
          IF tickets # {}
          THEN \E i \in tickets :
                 IF M.publicQueue[i].walletAddress # Null
                 THEN r.k = "findPairCreate" /\ r.queued = M.publicQueue[i]
                 ELSE /\ r.success /\ r.created /\ r.gameId = FreshId
                      /\ M.games[r.gameId] = 0
                      /\ after.gameStatus = "playing"
                      /\ after.player1.id = M.publicQueue[i].playerId
                      /\ after.player2.id = playerId
                      /\ QueueIndex(r.M.publicQueue, M.publicQueue[i].playerId) = 0
          ELSE /\ r.success /\ r.created /\ r.gameId = FreshId
               /\ M.games[r.gameId] = 0
               /\ after.gameStatus = "waiting_for_player"
               /\ after.gameType = "public"
               /\ after.player1.id = playerId /\ after.player2.id = Null
               /\ QueueIndex(r.M.publicQueue, playerId) # 0
               /\ Len(r.M.publicQueue) = Len(WithoutTickets(M.publicQueue, playerId)) + 1

\* C21 as stated: findRandomMatch joins the requester to a public waiting
\* game of equal stake and currency whose first slot is another player
\* whenever there is one, and the game is then playing; only when there is
\* none does it pair the requester with another player's ticket; only when
\* there is neither does it queue a ticket and create a placeholder game.
C21_FindSearchOrder_Original ==
  \A s \in {"s1", "s2", "s3"} : FindFillsSecondSlotOrPairs(s)

\* C21: findRandomMatch joins the requester to a public waiting game of equal
\* stake and currency whose first slot is not the requester whenever there is
\* one: into the second slot of a game another player waits in, which is then
\* playing, and into the first slot of a game that was created without a
\* creator, which goes on waiting; only when there is none does it pair the
\* requester with another player's ticket of equal stake and currency in a
\* new playing game; only when there is neither does it queue a ticket and
\* create a public waiting placeholder game with the requester in the first
\* slot.
C21_FindSearchOrder == \A s \in {"s1", "s2", "s3"} : FindFollowsSearchOrder(s)

\* for one requester the first game that waits was created without a creator
\* and has both slots empty, while another game has a player seated
C21_Witness ==
  \E s \in {"s1", "s2", "s3"} :
    LET M == AfterAutoLeave(Mgr, Owner(s))
        waiting == WaitingFor(M, Owner(s), PointsStake, "points")
    IN  /\ Live(s)
        /\ waiting # {}
        /\ \A g \in waiting : getGame(M, g).player1.id = Null
        /\ \E g \in GameIds : M.games[g] # 0 /\ getGame(M, g).player1.id # Null

\* the games of the table that hold playerId (only the playing ones if asked)
GamesWith(playerId, playingOnly) ==
  {g \in GameIds :
     /\ games[g] # 0
     /\ HasPlayer(getGame(Mgr, g), playerId)
     /\ playingOnly => getGame(Mgr, g).gameStatus = "playing"}

\* the games submitMove(playerId, _, hint) may choose by the order of the claim
TargetChoices(playerId, hint) ==
  IF playerGames[playerId] # Null THEN {playerGames[playerId]}
  ELSE IF hint \in GamesWith(playerId, TRUE) THEN {hint}
  ELSE IF GamesWith(playerId, TRUE) # {} THEN GamesWith(playerId, TRUE)
  ELSE GamesWith(playerId, FALSE)

\* what submitMove(playerId, move, hint) does in this state
SubmitHitsTarget(playerId, move, hint) ==
  LET r == submitMove(Mgr, playerId, move, hint)
      choices == TargetChoices(playerId, hint)
  IN IF choices = {}
     THEN ~r.success /\ r.error = "Player not in any game" /\ r.M = Mgr
     ELSE \E g \in choices :
            /\ r.M.playerGames[playerId] = g
            /\ \A q \in Players \ {playerId} : r.M.playerGames[q] = playerGames[q]
            /\ \A o \in ObjIds : o # games[g] => r.M.objs[o] = objs[o]
            /\ r.success => r.gameId = g

\* C22: submitMove by a player who has an entry in playerGames is applied to
\* the mapped game whatever the hint; for a player with no entry the target
\* is the hinted game if it holds the player and is playing, else a playing
\* game that holds the player, else any game that holds the player; on a hit
\* the entry player -> game is written, and when no game holds the player the
\* call fails with 'Player not in any game'.
C22_SubmitTarget ==
  \A playerId \in Players, move \in VALID_MOVES, hint \in GameIds \cup {Null} :
    SubmitHitsTarget(playerId, move, hint)

\* a player with a map entry sits in another, playing game as well, and a
\* player without an entry sits in a playing game
C22_Witness ==
  /\ \E p \in Players, g \in GameIds :
       /\ playerGames[p] \notin {Null, g}
       /\ g \in GamesWith(p, TRUE)
       /\ getGame(Mgr, g).player1.currentMove = Null
  /\ \E p \in Players : playerGames[p] = Null /\ GamesWith(p, TRUE) # {}

\* the moves a client may send: the three valid ones and one that is not
OfferedMoves == VALID_MOVES \cup {"lizard"}

\* a submitMove that fails leaves the game table and every game object as is
FailedSubmitKeepsGames(playerId, move, hint) ==
  LET r == submitMove(Mgr, playerId, move, hint)
  IN ~r.success => /\ r.M.games = games
                   /\ r.M.objs = objs
                   /\ r.M.publicQueue = publicQueue

\* C23: a submitMove that fails (move not rock, paper or scissors, player in
\* no game, target game not playing) leaves the current moves, win counts,
\* round number, status and history of every game unchanged.
C23_FailedSubmitChangesNothing ==
  \A playerId \in Players, move \in OfferedMoves, hint \in GameIds \cup {Null} :
    FailedSubmitKeepsGames(playerId, move, hint)

\* a player is mapped to a finished game with a played round, where a valid
\* move fails, and another game is playing, where an invalid move fails
C23_Witness ==
  \E p \in Players :
    /\ playerGames[p] # Null
    /\ getGame(Mgr, playerGames[p]).gameStatus = "finished"
    /\ Len(getGame(Mgr, playerGames[p]).moveHistory) > 0
    /\ ~submitMove(Mgr, p, "rock", Null).success
    /\ \E q \in Players :
         /\ playerGames[q] # Null
         /\ getGame(Mgr, playerGames[q]).gameStatus = "playing"
         /\ ~submitMove(Mgr, q, "lizard", Null).success

\* the game playerId is mapped to and sits in, before and after removePlayer
LeavesSlot(playerId) ==
  /\ playerGames[playerId] # Null
  /\ HasPlayer(getGame(Mgr, playerGames[playerId]), playerId)

GameAfterLeave(playerId) ==
  getGame(removePlayer(Mgr, playerId).M, playerGames[playerId])

OtherSlotId(gameState, playerId) ==
  IF gameState.player1.id = playerId THEN gameState.player2.id
  ELSE gameState.player1.id

BothSlotsEmpty(gameState) ==
  gameState.player1.id = Null /\ gameState.player2.id = Null

\* removePlayer by a player of a playing game: finished, the other slot wins
LeaveForfeits(playerId) ==
  LET before == getGame(Mgr, playerGames[playerId])
      after == GameAfterLeave(playerId)
  IN LeavesSlot(playerId) /\ before.gameStatus = "playing"
       => /\ removePlayer(Mgr, playerId).success
          /\ after.gameStatus = "finished"
          /\ after.winner = OtherSlotId(before, playerId)

\* C24 as stated: removePlayer by a player of a playing game sets the status
\* to finished with the winner equal to the id in the other slot; a
\* removePlayer after which both slots are empty sets the status to finished
\* with no winner.
C24_LeaveOutcome_Original ==
  \A playerId \in Players :
    /\ LeaveForfeits(playerId)
    /\ LeavesSlot(playerId) /\ BothSlotsEmpty(GameAfterLeave(playerId))
         => /\ GameAfterLeave(playerId).gameStatus = "finished"
            /\ GameAfterLeave(playerId).winner = Null

\* C24: removePlayer by a player of a playing game sets the status to
\* finished with the winner equal to the id in the other slot; a removePlayer
\* after which both slots are empty sets the status to finished and assigns
\* no winner: the winner field keeps the value it had.
C24_LeaveOutcome ==
  \A playerId \in Players :
    /\ LeaveForfeits(playerId)
    /\ LeavesSlot(playerId) /\ BothSlotsEmpty(GameAfterLeave(playerId))
         => /\ GameAfterLeave(playerId).gameStatus = "finished"
            /\ GameAfterLeave(playerId).winner
                 = getGame(Mgr, playerGames[playerId]).winner

\* one player can leave a playing game with an opponent in the other slot,
\* and another player is the last one to leave a game
C24_Witness ==
  /\ \E p \in Players :
       /\ LeavesSlot(p)
       /\ getGame(Mgr, playerGames[p]).gameStatus = "playing"
       /\ OtherSlotId(getGame(Mgr, playerGames[p]), p) # Null
  /\ \E p \in Players :
       /\ LeavesSlot(p)
       /\ OtherSlotId(getGame(Mgr, playerGames[p]), p) = Null
       /\ getGame(Mgr, playerGames[p]).winner # Null

\* the slot of playerId is cleared: id, socket and wallet null, no wins, no move
SlotCleared(slot) ==
  /\ slot.id = Null /\ slot.socketId = Null /\ slot.wallet = Null
  /\ slot.wins = 0 /\ slot.currentMove = Null

\* what a successful removePlayer(playerId) leaves behind
LeftBehind(playerId) ==
  LET r == removePlayer(Mgr, playerId)
      before == getGame(Mgr, r.gameId)
      after == getGame(r.M, r.gameId)
  IN r.success =>
       /\ r.gameId = playerGames[playerId]
       /\ before.player1.id = playerId => SlotCleared(after.player1)
       /\ before.player2.id = playerId => SlotCleared(after.player2)
       /\ ~HasPlayer(after, playerId)
       /\ r.M.playerGames[playerId] = Null
       /\ \A i \in 1..Len(r.M.publicQueue) : r.M.publicQueue[i].playerId # playerId

\* C25: after a successful removePlayer(p) the slot of p in the game it left
\* is empty (id, socket and wallet null, wins 0, move null), p has no entry
\* in playerGames, and publicQueue holds no ticket of p.
C25_LeaveClearsPlayer ==
  \A playerId \in Players : LeftBehind(playerId)

\* a player who holds a ticket and sits in the game it is mapped to can leave
C25_Witness ==
  \E p \in Players :
    /\ LeavesSlot(p)
    /\ QueueIndex(publicQueue, p) # 0
    /\ removePlayer(Mgr, p).success

\* C26: removePlayer by the occupant of a waiting_for_player game issues a
\* stake refund to the profile store for the leaver's wallet and the stake
\* of the game.
C26_LeaveWaitingRefunds ==
  \A playerId \in Players :
    LET gameState == getGame(Mgr, playerGames[playerId])
        wallet == IF gameState.player1.id = playerId THEN gameState.player1.wallet
                  ELSE gameState.player2.wallet
    IN LeavesSlot(playerId) /\ gameState.gameStatus = "waiting_for_player"
         /\ wallet # Null /\ gameState.stakeAmount > 0
       => \E n \in removePlayerRefunds(Mgr, playerId) :
            n.wallet = wallet /\ n.amount = gameState.stakeAmount

\* the games in the table
InTable(M) == {g \in GameIds : M.games[g] # 0}

\* what cleanupOldGames does when the games of older are older than maxAge
SweepRemoves(older) ==
  LET M == cleanupOldGamesAged(Mgr, older)
      gone == InTable(Mgr) \ InTable(M)
  IN /\ InTable(M) \subseteq InTable(Mgr)
     /\ \A g \in InTable(Mgr) :
          g \in gone <=> (getGame(Mgr, g).gameStatus = "finished" /\ g \in older)
     /\ \A g \in InTable(M) : M.games[g] = games[g]
     /\ M.objs = objs
     /\ \A p \in Players : playerGames[p] \in gone => M.playerGames[p] = Null

\* C27: cleanupOldGames(maxAge) removes from the table every finished game
\* older than maxAge together with the playerGames entries that point to it,
\* and removes no game that is waiting_for_player or playing and no finished
\* game that is not older than maxAge.
C27_SweepRemovesOldFinished ==
  \A older \in SUBSET GameIds : SweepRemoves(older)

\* C28: in every reachable state at most one live round timer exists per
\* game id, and it is the one gameTimers holds: startRoundTimer for a game
\* that has a timer clears the old one in the same step, whether it is called
\* by the delayed first-round start, by startNextRound or after a timeout.
C28_OneTimerPerGame ==
  \A g \in GameIds :
    intervals[g] = IF gameTimers[g] = NoTimer THEN 0 ELSE 1

\* the delayed first-round start of a game is due while a timer of the game
\* is running: the start will arm a timer for a game that has one
C28_Witness ==
  \E g \in GameIds :
    /\ pendingStart[g] > 0
    /\ gameTimers[g] # NoTimer /\ gameTimers[g] < RoundDuration
    /\ intervals[g] = 1

\* C29: in every reachable state no live round timer exists for a game that
\* is finished or no longer in the table: every step that finishes a game
\* (final round, leave, auto-leave in matchmaking, disconnect forfeit) or
\* removes it clears its timer in that step, and none is armed for it later.
C29_NoTimerForFinishedGame ==
  \A g \in GameIds :
    intervals[g] > 0 => getGame(Mgr, g).gameStatus \notin {"absent", "finished"}

\* a session that is still open is associated with player p
Reassociated(p) ==
  \E s \in Sockets : s \notin closed /\ socketPlayers[s] = p

\* the test of the deferred check of the disconnect handler for p:
\* !playerSockets.has(playerId), on which it declares the forfeit
GraceCheckForfeits(p) == playerSockets[p] = Null

\* the deferred check of p was scheduled and, running now, declares the
\* forfeit: it emits game_finished and calls gameManager.removeGame
GraceCheckActs(p) == p \in graceChecks /\ GraceCheckForfeits(p)

\* C30: when the disconnected player has associated a session again before
\* the grace time is over, five seconds after the disconnect, in whatever
\* order the re-association and the disconnect event were processed, no
\* forfeit is declared at that moment, no exception escapes, and the game
\* stays playing as it is.
C30_ReconnectKeepsMatch ==
  [][\A p \in Players, o \in ObjIds :
       (/\ disc[p] = "lost" /\ disc'[p] = "expired"
        /\ Reassociated(p)
        /\ objs[o].gameStatus = "playing"
        /\ HasPlayer(objs[o], p))
         => /\ ~GraceCheckActs(p)
            /\ ~crashed'
            /\ objs'[o] = objs[o]]_vars

\* the grace time of p1 is over: p1 came back on a second session before the
\* disconnect event of the first one was processed, so that p1 holds an open
\* session, playerSockets has no entry for p1, and the game p1 was playing at
\* the disconnect is still playing
C30_Witness ==
  /\ disc["p1"] = "expired"
  /\ ~crashed
  /\ Reassociated("p1")
  /\ playerSockets["p1"] = Null
  /\ discGame["p1"] # 0
  /\ objs[discGame["p1"]].gameStatus = "playing"
  /\ HasPlayer(objs[discGame["p1"]], "p1")

\* the suspended operation c waits for a balance check after it has read the
\* game object c.obj
WorksOnGame(c) ==
  /\ c.k \in {"join"} \cup FindKinds
  /\ c.obj \in ObjIds
  /\ objs[c.obj].gameStatus # "absent"

\* C31: while createGame, joinGame or findRandomMatch is suspended on its
\* balance check, no other operation changes the game it works on: the status
\* and slots it checked before the await are the ones it finds on resuming.
C31_NoMutationWhileSuspended ==
  [][\A c \in pending :
       (c \in pending' /\ WorksOnGame(c)) => objs'[c.obj] = objs[c.obj]]_vars

\* the games that are in the table before and after the step and whose state
\* the step changes
ChangedGames ==
  {g \in GameIds : games[g] # 0 /\ games'[g] # 0 /\ objs'[games'[g]] # objs[games[g]]}

\* C32: every handler (message handlers, timer tick and expiry, the deferred
\* disconnect check) completes in every reachable state without an exception
\* that escapes it, and a step of a handler changes the state of at most one
\* game: an operation on one game never changes another game.
C32_HandlersIsolated ==
  /\ [](~crashed)
  /\ [][Cardinality(ChangedGames) <= 1]_vars

\* the winner of a round by the rules: rock beats scissors, scissors beats
\* paper, paper beats rock
RoundWinnerByRules(m1, m2) ==
  IF m1 = m2 THEN "draw"
  ELSE IF <<m1, m2>> \in {<<"rock", "scissors">>, <<"scissors", "paper">>,
                          <<"paper", "rock">>}
  THEN "player1" ELSE "player2"

\* what processRound does to gameState once both moves m1 and m2 are in
RoundFrame(gameState, m1, m2) ==
  LET before == [gameState EXCEPT !.player1.currentMove = m1,
                                  !.player2.currentMove = m2]
      after == processRound(before).gameState
      w == RoundWinnerByRules(m1, m2)
      n == Len(before.moveHistory)
  IN /\ Len(after.moveHistory) = n + 1
     /\ SubSeq(after.moveHistory, 1, n) = before.moveHistory
     /\ after.moveHistory[n + 1] = [round |-> before.currentRound, player1Move |-> m1,
                                     player2Move |-> m2, winner |-> w]
     /\ after.player1.wins = before.player1.wins + (IF w = "player1" THEN 1 ELSE 0)
     /\ after.player2.wins = before.player2.wins + (IF w = "player2" THEN 1 ELSE 0)
     /\ after.currentRound = before.currentRound
     /\ after.player1.currentMove = m1 /\ after.player2.currentMove = m2

\* C33: processRound appends exactly one history entry that carries the
\* current round number, both moves and the round winner, adds one to the
\* wins of the round winner only (to neither on a draw), and leaves the
\* round number and both current moves as they are.
C33_ProcessRoundFrame ==
  \A o \in ObjIds, m1 \in VALID_MOVES, m2 \in VALID_MOVES :
    objs[o].gameStatus = "playing" => RoundFrame(objs[o], m1, m2)

\* a playing game in which a round has been won and the next one is open
C33_Witness ==
  \E o \in ObjIds :
    /\ objs[o].gameStatus = "playing"
    /\ Len(objs[o].moveHistory) > 0
    /\ objs[o].player1.wins + objs[o].player2.wins > 0
    /\ objs[o].currentRound > 1

\* what startNextRound(gameId) does in this state
NextRoundEffect(gameId) ==
  LET H == startNextRound(Hs, gameId)
      before == getGame(Mgr, gameId)
      after == getGame(H.M, gameId)
  IN IF before.gameStatus = "playing"
     THEN /\ after = [before EXCEPT !.currentRound = before.currentRound + 1,
                                     !.player1.currentMove = Null,
                                     !.player2.currentMove = Null,
                                     !.player1.ready = "false",
                                     !.player2.ready = "false"]
          /\ \A o \in ObjIds : o # games[gameId] => H.M.objs[o] = objs[o]
          /\ H.gameTimers[gameId] = RoundDuration
          /\ H.intervals[gameId] = 1
          /\ \A g \in GameIds \ {gameId} : H.gameTimers[g] = gameTimers[g]
     ELSE H = Hs

\* C34: startNextRound takes effect only on a playing game: it adds exactly
\* one to the round number, sets both current moves to null and both ready
\* flags to false, and arms a fresh timer of 15; for a game that is not
\* playing or not in the table it changes nothing and arms no timer.
C34_NextRoundOnlyWhilePlaying ==
  \A gameId \in GameIds : NextRoundEffect(gameId)

\* a playing game with a move in and a running timer next to a game that is
\* not playing
C34_Witness ==
  \E g, h \in GameIds :
    /\ getGame(Mgr, g).gameStatus = "playing"
    /\ getGame(Mgr, g).player1.currentMove # Null
    /\ gameTimers[g] \notin {NoTimer, RoundDuration}
    /\ getGame(Mgr, h).gameStatus \in {"waiting_for_player", "finished"}
    /\ gameTimers[h] = NoTimer

\* C35: in the history of every game the round numbers are strictly
\* increasing, so that no round is recorded twice, whichever of submit_move,
\* submit_rock and the timer expiry deliver the moves and in whatever order.
C35_RoundsStrictlyIncrease ==
  \A o \in ObjIds :
    objs[o].gameStatus # "absent" =>
      \A i, j \in 1..Len(objs[o].moveHistory) :
        i < j => objs[o].moveHistory[i].round < objs[o].moveHistory[j].round

\* C36: cleanupOldGames never deletes the playerGames entry of a player whose
\* entry points to a game that is not removed: a player who finished one game
\* and is mapped to a new, live game keeps that entry when the old finished
\* game is swept.
C36_SweepKeepsLiveEntries ==
  \A older \in SUBSET GameIds, p \in Players :
    LET M == cleanupOldGamesAged(Mgr, older)
    IN (Idle /\ playerGames[p] # Null /\ playerGames[p] \in InTable(M))
         => M.playerGames[p] = playerGames[p]

\* C37: a forfeit is announced at the end of the grace time only if the game
\* the player disconnected from is still playing and the player still
\* occupies one of its slots: when that game has finished meanwhile, or the
\* player is no longer in it, the end of the grace time announces no winner,
\* lets no exception escape and changes no game.
C37_GraceCheckRechecksGame ==
  [][\A p \in Players :
       (/\ disc[p] = "lost" /\ disc'[p] = "expired"
        /\ discGame[p] # 0
        /\ ~(/\ objs[discGame[p]].gameStatus = "playing"
              /\ HasPlayer(objs[discGame[p]], p)))
         => /\ ~GraceCheckActs(p)
            /\ ~crashed'
            /\ objs' = objs]_vars

\* the grace time of a player is over whose game finished during the five
\* seconds, and the player has no session
C37_Witness ==
  \E p \in Players :
    /\ disc[p] = "expired"
    /\ ~crashed
    /\ discGame[p] # 0
    /\ objs[discGame[p]].gameStatus = "finished"
    /\ playerSockets[p] = Null

\* C38: createGame with a requested id that is the id of a game in the table
\* does not replace that game: when a step puts another object under an id
\* that stays in the table, the game under that id still has the slots,
\* status, win counts and history it had, so that nothing of an existing game
\* is discarded by a create.
C38_CreateKeepsExistingGame ==
  [][\A g \in GameIds :
       (games[g] # 0 /\ games'[g] # 0 /\ games'[g] # games[g])
         => objs'[games'[g]] = objs[games[g]]]_vars

\* C39: when findRandomMatch returns an error, as it does for currency sol
\* with a stake that is not positive, the matchmaking queue holds no ticket of
\* the requester afterwards.
C39_FailedFindLeavesNoTicket ==
  [][find_random_match("s3", 0, "sol", Null)
       => QueueIndex(publicQueue', Owner("s3")) = 0]_vars

\* the countdown of the round timer of g ends in this step, in a playing game
TimerExpires(g) ==
  /\ gameTimers[g] = 1
  /\ getGame(Mgr, g).gameStatus = "playing"
  /\ Tick(g, VALID_MOVES)

\* C40: a playing game that is left to its round timer finishes within five
\* expiries of the timer, because every expiry records one round that is not
\* a draw and then either finishes the game or arms the timer again.
C40_ExpiryResolvesRound ==
  [][TimerExpires("g1") =>
       LET before == getGame(Mgr, "g1")
           after == objs'[games["g1"]]
       IN /\ Len(after.moveHistory) = Len(before.moveHistory) + 1
          /\ after.moveHistory[Len(after.moveHistory)].winner # "draw"
          /\ after.gameStatus = "finished" \/ gameTimers'["g1"] = RoundDuration]_vars

====
